---- MODULE Spec2Model ----
(***************************************************************************)
(* State-machine model of the python-proctor-service of exam-proctor:      *)
(* the Socket.IO handlers of proctor_server.py, the ProctorSession they    *)
(* drive, and the HandDetector / ScreenActivityDetector / UpperBodyDetector*)
(* adapters the session owns.                                              *)
(*                                                                         *)
(* Conventions                                                             *)
(*  - time.time() is the variable now, in whole seconds.  Every clock read *)
(*    of one handler returns the same value (a handler is one step).       *)
(*  - A Python Optional is a sequence of length 0 or 1; a dict is a        *)
(*    record; the registry dict is a function whose DOMAIN is its key set. *)
(*  - Pixel ratios are integers in units of 1e-4 (0.003 is 30), typing     *)
(*    confidences are integers in units of 0.01 (0.35 is 35).              *)
(*  - The vision primitives (mediapipe, cv2) are inputs: a camera frame is *)
(*    what the primitives see in it, a screen frame is its change counts.  *)
(*  - Fields the service writes but never reads back in a decision are     *)
(*    left out: the sample's 'timestamp', the screen detector's            *)
(*    activity_history and last_activity_time, free-text 'details'.        *)
(***************************************************************************)
EXTENDS Integers, Sequences, FiniteSets, TLC

VARIABLES
    now,              \* time.time()
    active_sessions,  \* proctor_server.active_sessions: sid -> ProctorSession
    outbox,           \* the messages emit()ted by the handler that ran last
    last,             \* what the handler that ran last did (its path)
    trace,            \* per sid, observed from outside: the last 3 screen
                      \* frames, the last 20 typing samples, the last 2
                      \* evaluation instants
    env,              \* what the client is sending (camera and screen content)
    db_writes,        \* the documents written to db (MongoDB), oldest first
    running,          \* the handlers in flight: per thread, the handler,
                      \* the statement it is at and its local `session`
    recorder,         \* integrated_exam_proctor.ScreenRecorder: its queue,
                      \* last_frame, where _record_loop is and its local
                      \* `frame`; and, observed from outside, the frames
                      \* grabbed, evicted and abandoned so far
    evaluator         \* evaluation.GhostTypingEvaluator: its sessions

vars ==
    <<now, active_sessions, outbox, last, trace, env, db_writes, running,
      recorder, evaluator>>

----------------------------------------------------------------------------
(* Python helpers *)

Max2(a, b) == IF a >= b THEN a ELSE b

Min2(a, b) == IF a <= b THEN a ELSE b

\* seq[-n:]
LastN(seq, n) == SubSeq(seq, Max2(1, Len(seq) - n + 1), Len(seq))

\* sum(1 for b in bs if b), bs the tests of a generator expression
CountTrue(bs) == Cardinality({i \in DOMAIN bs : bs[i]})

\* sum(1 for x in seq if x == 0)
CountZero(seq) == Cardinality({i \in DOMAIN seq : seq[i] = 0})

RECURSIVE SumSeq(_)
\* sum(seq)
SumSeq(seq) == IF seq = <<>> THEN 0 ELSE Head(seq) + SumSeq(Tail(seq))

\* collections.deque(maxlen=n).append(x)
DequeAppend(q, x, n) ==
    LET a == Append(q, x) IN IF Len(a) > n THEN Tail(a) ELSE a

\* dict insertion / deletion on the registry
DictPut(d, k, v) == [x \in DOMAIN d \cup {k} |-> IF x = k THEN v ELSE d[x]]

DictDel(d, k) == [x \in DOMAIN d \ {k} |-> d[x]]

----------------------------------------------------------------------------
(* Program constants *)

TYPING_WINDOW == 20        \* HandDetector.typing_history maxlen
VISIBLE_WINDOW == 20       \* HandDetector.hands_visible_history maxlen
SMOOTH_TYPING_MIN == 8     \* sum(typing_history) >= 8
ABSENT_LOOKBACK == 10      \* list(hands_visible_history)[-10:]
ABSENT_MIN == 8            \* recent_invisible < 8
VISIBLE_MIN == 10          \* sum(hands_visible_history) >= 10
GESTURE_THRESHOLD == 35    \* max_confidence > 0.35
POSITION_THRESHOLD == 30   \* max_confidence > 0.30

CHANGE_WINDOW == 20        \* ScreenActivityDetector.change_history maxlen
RHYTHM_SECONDS == 2        \* time.time() - c['timestamp'] < 2.0
RHYTHM_MIN_SAMPLES == 8    \* len(recent) >= 8
CONTINUE_MIN == 2          \* consecutive_activity >= 2
CONFIRM_MIN == 3           \* consecutive_activity >= 3
LOCAL_MIN_PIXELS == 100    \* low_pixels > 100

HISTORY_MAX == 40          \* len(detection_history) > 40
T_EVAL == 2                \* current_time - last_check_time >= 2.0
HISTORY_MIN == 15          \* len(detection_history) < 15
RECENT_N == 20             \* detection_history[-20:]
LONGER_N == 30             \* detection_history[-30:]
GHOST_COOLDOWN == 8        \* current_time - last_ghost_typing_time < 8.0
S_R_MIN == 12              \* screen_typing_frames >= 12
HA_R_MIN == 14             \* hands_not_visible_frames >= 14
S_L_MIN == 18              \* longer_screen >= 18
HA_L_MIN == 21             \* longer_no_hands >= 21
HT_R_MAX == 4              \* hands_typing_frames <= 4
HNT_R_MIN == 14            \* hands_visible_not_typing >= 14
HT_L_MAX == 6              \* longer_hands_typing <= 6
REPORT_LAST_K == 20        \* self.violations[-20:]
STATUS_EVERY == 50         \* session.frame_count % 50 == 0

----------------------------------------------------------------------------
(* hand_detector.py *)

\* HandDetector.__init__
HandDetector_init ==
    [is_none |-> FALSE, typing_history |-> <<>>, hands_visible_history |-> <<>>]

\* self.hand_detector = None
HandDetector_none ==
    [is_none |-> TRUE, typing_history |-> <<>>, hands_visible_history |-> <<>>]

\* HandDetector._balanced_typing_analysis: the score of one hand, times 10,
\* clamped to a confidence in hundredths.  A hand is what the criteria read
\* off its landmarks; raises is a landmark list the analysis fails on.
_balanced_typing_analysis(hand) ==
    IF hand.raises THEN 0
    ELSE LET s0 == 30
             s1 == IF hand.in_typing_area THEN s0 + 25 ELSE s0 - 10
             s2 == IF hand.curled_fingers >= 2 THEN s1 + 20
                   ELSE IF hand.curled_fingers >= 1 THEN s1 + 10 ELSE s1
             s3 == IF hand.fingers_up >= 3 THEN s2 - 20 ELSE s2 + 15
             s4 == IF ~hand.all_tips_close THEN s3 + 10 ELSE s3 - 10
             s5 == IF hand.centered THEN s4 + 5 ELSE s4
         IN Max2(0, Min2(100, s5))

\* max(typing_confidence_scores) if typing_confidence_scores else 0.0
MaxConfidence(hands) ==
    IF hands = <<>> THEN 0
    ELSE LET scores == {_balanced_typing_analysis(hands[i]) : i \in DOMAIN hands}
         IN CHOOSE m \in scores : \A x \in scores : x <= m

\* the no-hands path without line 45: typing_history is left as it was
detect_no_hands_unrecorded(hd) ==
    LET vis == DequeAppend(hd.hands_visible_history, 0, VISIBLE_WINDOW)
        typ == hd.typing_history
        recent_invisible ==
            CountZero(LastN(vis, ABSENT_LOOKBACK))
    IN [det |-> [hd EXCEPT !.hands_visible_history = vis],
        path |-> "no_hands",
        result |-> [count |-> 0,
                    hands_visible |-> FALSE,
                    in_typing_position |-> FALSE,
                    typing_gesture_detected |-> FALSE,
                    confidence |-> 0,
                    smoothed_typing |-> SumSeq(typ) >= SMOOTH_TYPING_MIN,
                    smoothed_visibility |-> recent_invisible < ABSENT_MIN]]

\* HandDetector.detect, no-hands path (lines 43-59)
detect_no_hands(hd) ==
    LET vis == DequeAppend(hd.hands_visible_history, 0, VISIBLE_WINDOW)
        typ == DequeAppend(hd.typing_history, 0, TYPING_WINDOW)
        recent_invisible ==
            CountZero(LastN(vis, ABSENT_LOOKBACK))
    IN [det |-> [hd EXCEPT !.hands_visible_history = vis,
                           !.typing_history = typ],
        path |-> "no_hands",
        result |-> [count |-> 0,
                    hands_visible |-> FALSE,
                    in_typing_position |-> FALSE,
                    typing_gesture_detected |-> FALSE,
                    confidence |-> 0,
                    smoothed_typing |-> SumSeq(typ) >= SMOOTH_TYPING_MIN,
                    smoothed_visibility |-> recent_invisible < ABSENT_MIN]]

\* HandDetector.detect, hands-detected path (lines 61-109)
detect_hands(hd, hands) ==
    LET vis == DequeAppend(hd.hands_visible_history, 1, VISIBLE_WINDOW)
        max_confidence == MaxConfidence(hands)
        gesture == max_confidence > GESTURE_THRESHOLD
        typ == DequeAppend(hd.typing_history, IF gesture THEN 1 ELSE 0,
                           TYPING_WINDOW)
    IN [det |-> [hd EXCEPT !.hands_visible_history = vis,
                           !.typing_history = typ],
        path |-> "hands",
        result |-> [count |-> Len(hands),
                    hands_visible |-> TRUE,
                    in_typing_position |-> max_confidence > POSITION_THRESHOLD,
                    typing_gesture_detected |-> gesture,
                    confidence |-> max_confidence,
                    smoothed_typing |-> SumSeq(typ) >= SMOOTH_TYPING_MIN,
                    smoothed_visibility |-> SumSeq(vis) >= VISIBLE_MIN]]

\* HandDetector.detect, except path (lines 111-123): cvtColor or the hand
\* primitive raised, before either history was touched
detect_error(hd) ==
    [det |-> hd,
     path |-> "error",
     result |-> [count |-> 0,
                 hands_visible |-> FALSE,
                 in_typing_position |-> FALSE,
                 typing_gesture_detected |-> FALSE,
                 confidence |-> 0,
                 smoothed_typing |-> FALSE,
                 smoothed_visibility |-> FALSE]]

\* HandDetector.detect
detect(hd, frame) ==
    IF frame.hand_error THEN detect_error(hd)
    ELSE IF frame.hands = <<>> THEN detect_no_hands(hd)
    ELSE detect_hands(hd, frame.hands)

----------------------------------------------------------------------------
(* upper_body_detector.py *)

UpperBodyDetector_init == [is_none |-> FALSE]

UpperBodyDetector_none == [is_none |-> TRUE]

\* UpperBodyDetector.detect: the number of faces, 0 when the primitive raised
body_detect(frame) ==
    [face_count |-> IF frame.face_error THEN 0 ELSE frame.faces,
     looking_away |-> FALSE]

----------------------------------------------------------------------------
(* screen_activity_detector.py *)

\* ScreenActivityDetector.__init__ (prev_frame is None: has_prev = FALSE)
ScreenActivityDetector_init ==
    [is_none |-> FALSE, has_prev |-> FALSE, change_history |-> <<>>,
     consecutive_activity |-> 0, frame_count |-> 0]

\* self.screen_detector = None
ScreenActivityDetector_none ==
    [is_none |-> TRUE, has_prev |-> FALSE, change_history |-> <<>>,
     consecutive_activity |-> 0, frame_count |-> 0]

\* signature_small_change: 0.003 < low_ratio < 0.04 and med_ratio < 0.02
signature_small_change(f) == 30 < f.low /\ f.low < 400 /\ f.med < 200

\* signature_typing_flow: 0.005 < med_ratio < 0.06 and high_ratio < 0.03
signature_typing_flow(f) == 50 < f.med /\ f.med < 600 /\ f.high < 300

\* too_large without its test of low_ratio
too_large_medium_only(f) == f.med > 800

\* too_large: low_ratio > 0.12 or med_ratio > 0.08
too_large(f) == f.low > 1200 \/ f.med > 800

\* too_small: low_ratio < 0.002
too_small(f) == f.low < 20

\* is_localized (lines 89-109); low_pixels = low_ratio * total_pixels
is_localized(f) ==
    IF f.low * f.px_per_unit > LOCAL_MIN_PIXELS
    THEN (IF f.min_quad > 0 THEN f.max_quad > 3 * f.min_quad ELSE TRUE)
    ELSE FALSE

\* has_typing_rhythm (lines 119-132) over the med ratios x of the entries
\* younger than 2 s: 0.00002 < var < 0.002 and 0.003 < mean < 0.06, with
\* var = (n*sum(x^2) - sum(x)^2) / n^2 in units of 1e-8 and mean = sum(x)/n
has_typing_rhythm(change_history, t) ==
    LET recent == SelectSeq(change_history,
                            LAMBDA c : t - c.timestamp < RHYTHM_SECONDS)
        n == Len(recent)
        s1 == SumSeq([i \in DOMAIN recent |-> recent[i].med])
        s2 == SumSeq([i \in DOMAIN recent |-> recent[i].med * recent[i].med])
        nvar == n * s2 - s1 * s1
    IN IF n >= RHYTHM_MIN_SAMPLES
       THEN 2000 * n * n < nvar /\ nvar < 200000 * n * n
            /\ 30 * n < s1 /\ s1 < 600 * n
       ELSE FALSE

\* the counter update of lines 145-149 with the counter reset to 0 by a
\* frame that is not typing
consecutive_update_resetting(consecutive_activity, is_typing) ==
    IF is_typing THEN consecutive_activity + 1 ELSE 0

\* the counter update of lines 145-149
consecutive_update(consecutive_activity, is_typing) ==
    IF is_typing THEN consecutive_activity + 1
    ELSE Max2(0, consecutive_activity - 1)

\* confirmed_typing = is_typing and self.consecutive_activity >= 3
confirmed_typing(is_typing, consecutive_activity) ==
    is_typing /\ consecutive_activity >= CONFIRM_MIN

\* ScreenActivityDetector.detect_typing_activity
detect_typing_activity(sd, f, t) ==
    IF f.raises \/ f.empty
    THEN [det |-> sd, result |-> FALSE, candidate |-> FALSE, path |-> "early"]
    ELSE IF ~sd.has_prev
    THEN [det |-> [sd EXCEPT !.has_prev = TRUE],
          result |-> FALSE, candidate |-> FALSE, path |-> "first"]
    ELSE
    LET hist == DequeAppend(sd.change_history,
                            [low |-> f.low, med |-> f.med, timestamp |-> t],
                            CHANGE_WINDOW)
        is_typing ==
            /\ (signature_small_change(f) \/ signature_typing_flow(f))
            /\ ~too_large(f)
            /\ ~too_small(f)
            /\ is_localized(f)
            /\ (has_typing_rhythm(hist, t)
                \/ sd.consecutive_activity >= CONTINUE_MIN)
        consec == consecutive_update(sd.consecutive_activity, is_typing)
    IN [det |-> [sd EXCEPT !.change_history = hist,
                           !.consecutive_activity = consec,
                           !.frame_count = @ + 1],
        result |-> confirmed_typing(is_typing, consec),
        candidate |-> is_typing,
        path |-> "full"]

\* ScreenActivityDetector.reset
screen_reset(sd) ==
    [sd EXCEPT !.has_prev = FALSE, !.change_history = <<>>,
               !.consecutive_activity = 0, !.frame_count = 0]

----------------------------------------------------------------------------
(* proctor_server.py: ProctorSession *)

\* ProctorSession.__init__ with line 81 reading time.time(): a new session
\* starts inside the ghost cooldown
ProctorSession_init_armed(student_id, exam_id, init_ok, t) ==
    [student_id |-> student_id,
     exam_id |-> exam_id,
     violations |-> <<>>,
     frame_count |-> 0,
     screen_frame_count |-> 0,
     start_time |-> t,
     typing_mismatch_count |-> 0,
     screen_typing_detected |-> FALSE,
     hands_typing_detected |-> FALSE,
     hands_visible |-> FALSE,
     last_check_time |-> t,
     detection_history |-> <<>>,
     ghost_typing_incidents |-> <<>>,
     last_ghost_typing_time |-> t,
     hand_detector |-> IF init_ok THEN HandDetector_init ELSE HandDetector_none,
     body_detector |-> IF init_ok THEN UpperBodyDetector_init
                       ELSE UpperBodyDetector_none,
     screen_detector |-> IF init_ok THEN ScreenActivityDetector_init
                         ELSE ScreenActivityDetector_none]

\* ProctorSession.__init__; init_ok = FALSE is a detector constructor that
\* raised, which leaves all three detectors None (lines 92-97)
ProctorSession_init(student_id, exam_id, init_ok, t) ==
    [student_id |-> student_id,
     exam_id |-> exam_id,
     violations |-> <<>>,
     frame_count |-> 0,
     screen_frame_count |-> 0,
     start_time |-> t,
     typing_mismatch_count |-> 0,
     screen_typing_detected |-> FALSE,
     hands_typing_detected |-> FALSE,
     hands_visible |-> FALSE,
     last_check_time |-> t,
     detection_history |-> <<>>,
     ghost_typing_incidents |-> <<>>,
     last_ghost_typing_time |-> 0,
     hand_detector |-> IF init_ok THEN HandDetector_init ELSE HandDetector_none,
     body_detector |-> IF init_ok THEN UpperBodyDetector_init
                       ELSE UpperBodyDetector_none,
     screen_detector |-> IF init_ok THEN ScreenActivityDetector_init
                         ELSE ScreenActivityDetector_none]

\* the counters of lines 198-207 over a window of samples
screen_typing_frames(w) == CountTrue([i \in DOMAIN w |-> w[i].screen_typing])

hands_typing_frames(w) == CountTrue([i \in DOMAIN w |-> w[i].hands_typing])

hands_not_visible_frames(w) == CountTrue([i \in DOMAIN w |-> ~w[i].hands_visible])

\* lines 204-207 without `d['hands_visible'] and`
hands_visible_not_typing_unseen(w) ==
    CountTrue([i \in DOMAIN w |-> ~w[i].hands_typing])

hands_visible_not_typing(w) ==
    CountTrue([i \in DOMAIN w |-> w[i].hands_visible /\ ~w[i].hands_typing])

\* the incident of lines 233-246
incident_hands_absent(recent, longer_recent, t) ==
    [type |-> "GHOST_TYPING_DETECTED",
     severity |-> "CRITICAL",
     timestamp |-> t,
     confidence |-> 90,
     evidence |-> [screen_typing_frames |-> screen_typing_frames(recent),
                   hands_not_visible |-> hands_not_visible_frames(recent),
                   longer_confirmation |->
                       <<screen_typing_frames(longer_recent),
                         hands_not_visible_frames(longer_recent)>>],
     scenario |-> "hands_absent"]

\* the incident of lines 275-288
incident_hands_not_typing(recent, longer_recent, t) ==
    [type |-> "GHOST_TYPING_DETECTED",
     severity |-> "HIGH",
     timestamp |-> t,
     confidence |-> 80,
     evidence |-> [screen_typing_frames |-> screen_typing_frames(recent),
                   hands_typing_frames |-> hands_typing_frames(recent),
                   hands_visible_not_typing |-> hands_visible_not_typing(recent),
                   longer_confirmation |->
                       <<screen_typing_frames(longer_recent),
                         hands_typing_frames(longer_recent)>>],
     scenario |-> "hands_not_typing"]

\* note_incident without line 250/292: the cooldown is never armed
note_incident_unarmed(s, incident, t) ==
    [session |-> [s EXCEPT !.typing_mismatch_count = @ + 1,
                           !.ghost_typing_incidents = Append(@, incident)],
     incident |-> <<incident>>]

\* note_incident without line 230/272: the incident is not counted
note_incident_uncounted(s, incident, t) ==
    [session |-> [s EXCEPT !.last_ghost_typing_time = t,
                           !.ghost_typing_incidents = Append(@, incident)],
     incident |-> <<incident>>]

\* self.typing_mismatch_count += 1; self.last_ghost_typing_time = current_time;
\* self.ghost_typing_incidents.append(incident); return incident
note_incident(s, incident, t) ==
    [session |-> [s EXCEPT !.typing_mismatch_count = @ + 1,
                           !.last_ghost_typing_time = t,
                           !.ghost_typing_incidents = Append(@, incident)],
     incident |-> <<incident>>]

\* the under-fill guard of line 194
history_underfilled(history) == Len(history) < HISTORY_MIN

\* the cooldown guard of line 211
in_cooldown(s, t) == t - s.last_ghost_typing_time < GHOST_COOLDOWN

\* line 219 with the absence threshold one sample lower
primary_hands_absent_loose(recent) ==
    screen_typing_frames(recent) >= S_R_MIN
    /\ hands_not_visible_frames(recent) >= HA_R_MIN - 1

\* line 219 without its test of the hands
primary_hands_absent_screen_only(recent) ==
    screen_typing_frames(recent) >= S_R_MIN

\* the scenario-1 primary test of line 219
primary_hands_absent(recent) ==
    screen_typing_frames(recent) >= S_R_MIN
    /\ hands_not_visible_frames(recent) >= HA_R_MIN

\* line 227 with > for >=
confirm_hands_absent_strict(longer_recent) ==
    screen_typing_frames(longer_recent) > S_L_MIN
    /\ hands_not_visible_frames(longer_recent) > HA_L_MIN

\* line 227 with the thresholds of line 219
confirm_hands_absent_as_primary(longer_recent) ==
    screen_typing_frames(longer_recent) >= S_R_MIN
    /\ hands_not_visible_frames(longer_recent) >= HA_R_MIN

\* the scenario-1 confirmation of line 227
confirm_hands_absent(longer_recent) ==
    screen_typing_frames(longer_recent) >= S_L_MIN
    /\ hands_not_visible_frames(longer_recent) >= HA_L_MIN

\* the scenario-2 primary test of line 261
primary_hands_not_typing(recent) ==
    screen_typing_frames(recent) >= S_R_MIN
    /\ hands_typing_frames(recent) <= HT_R_MAX
    /\ hands_visible_not_typing(recent) >= HNT_R_MIN

\* the scenario-2 confirmation of line 269
confirm_hands_not_typing(longer_recent) ==
    screen_typing_frames(longer_recent) >= S_L_MIN
    /\ hands_typing_frames(longer_recent) <= HT_L_MAX

\* the analysis as its docstring words it, in shares of the recent window
\* (screen typing in 60%+, hands not visible in 70%+), with neither the
\* under-fill guard of line 194 nor the confirmation of line 227
_balanced_ghost_typing_analysis_by_share(s, t) ==
    LET recent == LastN(s.detection_history, RECENT_N)
    IN IF in_cooldown(s, t) THEN [session |-> s, incident |-> <<>>]
       ELSE IF recent # <<>>
               /\ 10 * screen_typing_frames(recent) >= 6 * Len(recent)
               /\ 10 * hands_not_visible_frames(recent) >= 7 * Len(recent)
       THEN note_incident(s, incident_hands_absent(recent, recent, t), t)
       ELSE [session |-> s, incident |-> <<>>]

\* ProctorSession._balanced_ghost_typing_analysis
_balanced_ghost_typing_analysis(s, t) ==
    LET history == s.detection_history
        recent == LastN(history, RECENT_N)
        longer_recent == LastN(history, LONGER_N)
        none == [session |-> s, incident |-> <<>>]
    IN IF history_underfilled(history) THEN none
       ELSE IF in_cooldown(s, t) THEN none
       ELSE IF primary_hands_absent(recent)
       THEN (IF Len(history) >= LONGER_N /\ confirm_hands_absent(longer_recent)
             THEN note_incident(s,
                      incident_hands_absent(recent, longer_recent, t), t)
             ELSE none)
       ELSE IF primary_hands_not_typing(recent)
       THEN (IF Len(history) >= LONGER_N
                /\ confirm_hands_not_typing(longer_recent)
             THEN note_incident(s,
                      incident_hands_not_typing(recent, longer_recent, t), t)
             ELSE none)
       ELSE none

\* lines 106-123 with >= 1 for > 1 in the test for several persons
face_violations_from_one(s, frame, t) ==
    IF s.body_detector.is_none THEN <<>>
    ELSE LET face_count == body_detect(frame).face_count
         IN (IF face_count = 0
             THEN <<[type |-> "NO_FACE_DETECTED", severity |-> "MEDIUM",
                     timestamp |-> t]>>
             ELSE <<>>)
            \o
            (IF face_count >= 1
             THEN <<[type |-> "MULTIPLE_PERSONS", severity |-> "CRITICAL",
                     timestamp |-> t, people |-> face_count]>>
             ELSE <<>>)

\* the per-frame face violations of lines 106-123
face_violations(s, frame, t) ==
    IF s.body_detector.is_none THEN <<>>
    ELSE LET face_count == body_detect(frame).face_count
         IN (IF face_count = 0
             THEN <<[type |-> "NO_FACE_DETECTED", severity |-> "MEDIUM",
                     timestamp |-> t]>>
             ELSE <<>>)
            \o
            (IF face_count > 1
             THEN <<[type |-> "MULTIPLE_PERSONS", severity |-> "CRITICAL",
                     timestamp |-> t, people |-> face_count]>>
             ELSE <<>>)

\* lines 145-146 with pop() for pop(0): the newest sample goes
history_append_drop_newest(history, sample) ==
    LET h == Append(history, sample)
    IN IF Len(h) > HISTORY_MAX THEN SubSeq(h, 1, Len(h) - 1) ELSE h

\* detection_history.append(...) and the cap of lines 145-146
history_append(history, sample) ==
    LET h == Append(history, sample)
    IN IF Len(h) > HISTORY_MAX THEN Tail(h) ELSE h

\* lines 134-142 numbering a sample by the history's length
sample_of_by_length(s, r) ==
    [frame_number |-> Len(s.detection_history),
     hands_visible |-> r.smoothed_visibility,
     hands_typing |-> r.smoothed_typing,
     hand_count |-> r.count,
     typing_confidence |-> r.confidence,
     screen_typing |-> s.screen_typing_detected]

\* the sample of lines 134-142
sample_of(s, r) ==
    [frame_number |-> s.frame_count,
     hands_visible |-> r.smoothed_visibility,
     hands_typing |-> r.smoothed_typing,
     hand_count |-> r.count,
     typing_confidence |-> r.confidence,
     screen_typing |-> s.screen_typing_detected]

\* lines 129-146, given hands_result = d.result
hand_store(s, d) ==
    [session |->
         [s EXCEPT !.hand_detector = d.det,
                   !.hands_visible = d.result.smoothed_visibility,
                   !.hands_typing_detected = d.result.smoothed_typing,
                   !.detection_history =
                       history_append(@, sample_of(s, d.result))],
     hands |-> <<[path |-> d.path, result |-> d.result]>>]

\* the hand step of lines 126-146
hand_step(s, frame) ==
    IF s.hand_detector.is_none THEN [session |-> s, hands |-> <<>>]
    ELSE hand_store(s, detect(s.hand_detector, frame))

\* the timer test of line 152
evaluation_due(s, t) == t - s.last_check_time >= T_EVAL

\* lines 154-156 with line 156 inside the if: the timer is re-armed only
\* when the analysis returned an incident
fusion_store_on_incident(g, t) ==
    [session |-> IF g.incident # <<>>
                 THEN [g.session EXCEPT !.last_check_time = t]
                 ELSE g.session,
     incident |-> g.incident, evaluated |-> TRUE]

\* lines 154-156, given the analysis' outcome g
fusion_store(g, t) ==
    [session |-> [g.session EXCEPT !.last_check_time = t],
     incident |-> g.incident, evaluated |-> TRUE]

\* lines 150-156 with line 156 run at every frame: the timer is re-armed
\* whether or not the analysis ran
fusion_step_rearming(s, t) ==
    IF evaluation_due(s, t)
    THEN fusion_store(_balanced_ghost_typing_analysis(s, t), t)
    ELSE [session |-> [s EXCEPT !.last_check_time = t],
          incident |-> <<>>, evaluated |-> FALSE]

\* the fusion step of lines 150-156
fusion_step(s, t) ==
    IF evaluation_due(s, t)
    THEN fusion_store(_balanced_ghost_typing_analysis(s, t), t)
    ELSE [session |-> s, incident |-> <<>>, evaluated |-> FALSE]

\* lines 148-162, given the face violations and the hand step's outcome
video_finish(fv, hands, g) ==
    [session |-> g.session,
     violations |-> fv \o g.incident,
     evaluated |-> g.evaluated,
     hands |-> hands]

\* lines 148-156, given the hand step's outcome h
video_count_and_fuse(fv, h, t) ==
    video_finish(fv, h.hands,
                 fusion_step([h.session EXCEPT !.frame_count = @ + 1], t))

\* ProctorSession.process_video_frame.  Both detectors catch their own
\* exceptions, so the except branch of lines 158-160 is never entered.
process_video_frame(s, frame, t) ==
    video_count_and_fuse(face_violations(s, frame, t), hand_step(s, frame), t)

\* process_screen_frame counting the frame in frame_count, the camera
\* frames' counter, as well
process_screen_frame_counting(s, frame, t) ==
    IF s.screen_detector.is_none
    THEN [session |-> [s EXCEPT !.screen_frame_count = @ + 1,
                                !.frame_count = @ + 1],
          violations |-> <<>>, screen |-> <<>>]
    ELSE LET d == detect_typing_activity(s.screen_detector, frame, t)
         IN [session |-> [s EXCEPT !.screen_detector = d.det,
                                   !.screen_typing_detected = d.result,
                                   !.screen_frame_count = @ + 1,
                                   !.frame_count = @ + 1],
             violations |-> <<>>,
             screen |-> <<[candidate |-> d.candidate, result |-> d.result,
                           path |-> d.path]>>]

\* ProctorSession.process_screen_frame
process_screen_frame(s, frame, t) ==
    IF s.screen_detector.is_none
    THEN [session |-> [s EXCEPT !.screen_frame_count = @ + 1],
          violations |-> <<>>, screen |-> <<>>]
    ELSE LET d == detect_typing_activity(s.screen_detector, frame, t)
         IN [session |-> [s EXCEPT !.screen_detector = d.det,
                                   !.screen_typing_detected = d.result,
                                   !.screen_frame_count = @ + 1],
             violations |-> <<>>,
             screen |-> <<[candidate |-> d.candidate, result |-> d.result,
                           path |-> d.path]>>]

\* violation_counts.get(vtype, 0)
violation_count(violations, vtype) ==
    CountTrue([i \in DOMAIN violations |-> violations[i].type = vtype])

\* lines 314-319 with >= 20 for > 20 in the test of the no-face count
risk_level_from_twenty(ghost_typing, multiple_persons, no_face) ==
    IF ghost_typing >= 3 \/ multiple_persons >= 2 THEN "HIGH_RISK"
    ELSE IF ghost_typing >= 1 \/ no_face >= 20 THEN "MEDIUM_RISK"
    ELSE "LOW_RISK"

\* the risk assessment of lines 314-319
risk_level(ghost_typing, multiple_persons, no_face) ==
    IF ghost_typing >= 3 \/ multiple_persons >= 2 THEN "HIGH_RISK"
    ELSE IF ghost_typing >= 1 \/ no_face > 20 THEN "MEDIUM_RISK"
    ELSE "LOW_RISK"

\* line 327 with [:20] for [-20:]: the first entries, not the last
detailed_violations_first(violations) ==
    SubSeq(violations, 1, Min2(REPORT_LAST_K, Len(violations)))

\* self.violations[-20:]
detailed_violations(violations) == LastN(violations, REPORT_LAST_K)

\* ProctorSession.generate_report
generate_report(s, t) ==
    LET types == {s.violations[i].type : i \in DOMAIN s.violations}
        ghost_typing == violation_count(s.violations, "GHOST_TYPING_DETECTED")
        multiple_persons == violation_count(s.violations, "MULTIPLE_PERSONS")
        no_face == violation_count(s.violations, "NO_FACE_DETECTED")
    IN [studentId |-> s.student_id,
        examId |-> s.exam_id,
        duration |-> t - s.start_time,
        totalViolations |-> Len(s.violations),
        violationSummary |->
            [ty \in types |-> violation_count(s.violations, ty)],
        detailedViolations |-> detailed_violations(s.violations),
        riskLevel |-> risk_level(ghost_typing, multiple_persons, no_face),
        framesProcessed |-> s.frame_count,
        screenFramesProcessed |-> s.screen_frame_count,
        timestamp |-> t,
        violationBreakdown |-> [ghostTyping |-> ghost_typing,
                                noFace |-> no_face,
                                multiplePersons |-> multiple_persons]]

----------------------------------------------------------------------------
(* proctor_server.py: the Socket.IO handlers *)

\* the connection ids (request.sid)
Sids == {"sid1", "sid2"}

NoTrace == [screen |-> <<>>, typing |-> <<>>, evals |-> <<>>, outputs |-> <<>>]

\* what a handler leaves in last
Did(op, sid, path) ==
    [op |-> op, sid |-> sid, t |-> now, path |-> path, evaluated |-> FALSE,
     violations |-> <<>>, hands |-> <<>>, screen |-> <<>>]

\* the observations of one processed camera frame
trace_video(tr, r, t) ==
    [tr EXCEPT
        !.typing =
            IF r.hands # <<>> /\ r.hands[1].path # "error"
            THEN LastN(Append(@, r.hands[1].result.typing_gesture_detected), 20)
            ELSE @,
        !.evals = IF r.evaluated THEN LastN(Append(@, t), 2) ELSE @]

\* the observations of one processed screen frame
trace_screen(tr, r) ==
    [tr EXCEPT
        !.screen =
            IF r.screen # <<>>
            THEN LastN(Append(@, [candidate |-> r.screen[1].candidate,
                                  result |-> r.screen[1].result]), 3)
            ELSE @,
        !.outputs =
            IF r.screen # <<>>
            THEN LastN(Append(@, r.screen[1].result), 20)
            ELSE @]

\* start_proctoring with the detectors built once for the whole server: a
\* session started beside another takes over that session's detectors
start_proctoring_shared_detectors(sid, data, init_ok) ==
    /\ UNCHANGED <<now, db_writes, running, recorder, evaluator>>
    /\ IF data.valid
       THEN /\ \E fresh \in {ProctorSession_init(
                                 IF data.studentId = <<>> THEN "unknown-student"
                                 ELSE data.studentId[1],
                                 data.examId, init_ok, now)} :
                 active_sessions' =
                     DictPut(active_sessions, sid,
                             IF DOMAIN active_sessions \ {sid} = {} THEN fresh
                             ELSE LET other == active_sessions[
                                      CHOOSE o \in DOMAIN active_sessions \ {sid} : TRUE]
                                  IN [fresh EXCEPT
                                         !.hand_detector = other.hand_detector,
                                         !.screen_detector = other.screen_detector])
            /\ outbox' = <<[event |-> "proctoring_started",
                            status |-> "success", sessionId |-> sid]>>
            /\ trace' = [trace EXCEPT ![sid] = [NoTrace EXCEPT !.evals = <<now>>]]
            /\ last' = Did("start_proctoring", sid, "started")
       ELSE /\ UNCHANGED <<active_sessions, trace>>
            /\ outbox' = <<[event |-> "error", message |-> "exception"]>>
            /\ last' = Did("start_proctoring", sid, "error")

\* start_proctoring with active_sessions.setdefault(request.sid, session)
\* for line 373: a connection that has a session keeps it
start_proctoring_keeping(sid, data, init_ok) ==
    /\ UNCHANGED <<now, db_writes, running, recorder, evaluator>>
    /\ IF data.valid
       THEN /\ active_sessions' =
                 IF sid \in DOMAIN active_sessions THEN active_sessions
                 ELSE DictPut(active_sessions, sid,
                              ProctorSession_init(
                                  IF data.studentId = <<>> THEN "unknown-student"
                                  ELSE data.studentId[1],
                                  data.examId, init_ok, now))
            /\ outbox' = <<[event |-> "proctoring_started",
                            status |-> "success", sessionId |-> sid]>>
            /\ trace' = [trace EXCEPT ![sid] = [NoTrace EXCEPT !.evals = <<now>>]]
            /\ last' = Did("start_proctoring", sid, "started")
       ELSE /\ UNCHANGED <<active_sessions, trace>>
            /\ outbox' = <<[event |-> "error", message |-> "exception"]>>
            /\ last' = Did("start_proctoring", sid, "error")

\* @socketio.on('start_proctoring'); data.valid = FALSE is a payload that
\* is no dict, on which data.get raises
start_proctoring(sid, data, init_ok) ==
    /\ UNCHANGED <<now, db_writes, running, recorder, evaluator>>
    /\ IF data.valid
       THEN /\ active_sessions' =
                 DictPut(active_sessions, sid,
                         ProctorSession_init(
                             IF data.studentId = <<>> THEN "unknown-student"
                             ELSE data.studentId[1],
                             data.examId, init_ok, now))
            /\ outbox' = <<[event |-> "proctoring_started",
                            status |-> "success", sessionId |-> sid]>>
            /\ trace' = [trace EXCEPT ![sid] = [NoTrace EXCEPT !.evals = <<now>>]]
            /\ last' = Did("start_proctoring", sid, "started")
       ELSE /\ UNCHANGED <<active_sessions, trace>>
            /\ outbox' = <<[event |-> "error", message |-> "exception"]>>
            /\ last' = Did("start_proctoring", sid, "error")

\* a lookup miss answered with an error whatever the message
no_session_reply_error(op) ==
    <<[event |-> "error", message |-> "No active session"]>>

\* what a handler emits when active_sessions.get(request.sid) is None:
\* nothing for a frame (lines 390-391, 428-429), an error for
\* end_proctoring (lines 456-458)
no_session_reply(op) ==
    IF op = "end_proctoring"
    THEN <<[event |-> "error", message |-> "No active session"]>>
    ELSE <<>>

\* lines 393-398 and 431-436 without the test for None: what imdecode
\* returns is processed whatever it is
decode_unchecked(data) == IF data.malformed THEN "exception" ELSE "ok"

\* lines 393-398 and 431-436: data['frame'].split(',')[1] raises on a
\* malformed payload, cv2.imdecode returns None on an undecodable one
decode(data) ==
    IF data.malformed THEN "exception"
    ELSE IF data.undecodable THEN "frame_none"
    ELSE "ok"

\* the proctor_status message of lines 409-415
proctor_status_one_early(s) ==
    IF (s.frame_count + 1) % STATUS_EVERY = 0
    THEN <<[event |-> "proctor_status",
            framesProcessed |-> s.frame_count,
            screenFramesProcessed |-> s.screen_frame_count,
            totalViolations |-> Len(s.violations),
            ghostTypingCount |-> s.typing_mismatch_count]>>
    ELSE <<>>

\* lines 409-415
proctor_status(s) ==
    IF s.frame_count % STATUS_EVERY = 0
    THEN <<[event |-> "proctor_status",
            framesProcessed |-> s.frame_count,
            screenFramesProcessed |-> s.screen_frame_count,
            totalViolations |-> Len(s.violations),
            ghostTypingCount |-> s.typing_mismatch_count]>>
    ELSE <<>>

\* @socketio.on('video_frame'); data.malformed is a payload whose 'frame'
\* is missing or has no comma, data.undecodable one cv2.imdecode rejects
handle_video_frame(sid, data) ==
    /\ UNCHANGED <<now, db_writes, running, recorder, evaluator>>
    /\ IF sid \notin DOMAIN active_sessions
       THEN /\ UNCHANGED <<active_sessions, trace>>
            /\ outbox' = no_session_reply("video_frame")
            /\ last' = Did("video_frame", sid, "no_session")
       ELSE IF decode(data) = "exception"
       THEN /\ UNCHANGED <<active_sessions, trace>>
            /\ outbox' = <<>>
            /\ last' = Did("video_frame", sid, "exception")
       ELSE IF decode(data) = "frame_none"
       THEN /\ UNCHANGED <<active_sessions, trace>>
            /\ outbox' = <<>>
            /\ last' = Did("video_frame", sid, "frame_none")
       ELSE \E r \in {process_video_frame(active_sessions[sid], data.frame, now)} :
            \E s2 \in {[r.session EXCEPT !.violations = @ \o r.violations]} :
               /\ active_sessions' = [active_sessions EXCEPT ![sid] = s2]
               /\ outbox' =
                      (IF r.violations # <<>>
                       THEN <<[event |-> "violation_detected",
                               violations |-> r.violations]>>
                       ELSE <<>>) \o proctor_status(s2)
               /\ trace' = [trace EXCEPT ![sid] = trace_video(@, r, now)]
               /\ last' = [Did("video_frame", sid, "processed") EXCEPT
                              !.evaluated = r.evaluated,
                              !.violations = r.violations,
                              !.hands = r.hands]

\* @socketio.on('screen_frame')
handle_screen_frame(sid, data) ==
    /\ UNCHANGED <<now, db_writes, running, recorder, evaluator>>
    /\ IF sid \notin DOMAIN active_sessions
       THEN /\ UNCHANGED <<active_sessions, trace>>
            /\ outbox' = no_session_reply("screen_frame")
            /\ last' = Did("screen_frame", sid, "no_session")
       ELSE IF decode(data) = "exception"
       THEN /\ UNCHANGED <<active_sessions, trace>>
            /\ outbox' = <<>>
            /\ last' = Did("screen_frame", sid, "exception")
       ELSE IF decode(data) = "frame_none"
       THEN /\ UNCHANGED <<active_sessions, trace>>
            /\ outbox' = <<>>
            /\ last' = Did("screen_frame", sid, "frame_none")
       ELSE LET r == process_screen_frame(active_sessions[sid], data.frame, now)
                s2 == [r.session EXCEPT !.violations = @ \o r.violations]
            IN /\ active_sessions' = [active_sessions EXCEPT ![sid] = s2]
               /\ outbox' =
                      (IF r.violations # <<>>
                       THEN <<[event |-> "violation_detected",
                               violations |-> r.violations,
                               source |-> "screen"]>>
                       ELSE <<>>)
               /\ trace' = [trace EXCEPT ![sid] = trace_screen(@, r)]
               /\ last' = [Did("screen_frame", sid, "processed") EXCEPT
                              !.violations = r.violations,
                              !.screen = r.screen]

\* end_proctoring without line 470: the session stays registered
end_proctoring_keeps_session(sid) ==
    /\ UNCHANGED <<now, db_writes, running, recorder, evaluator>>
    /\ IF sid \notin DOMAIN active_sessions
       THEN /\ UNCHANGED <<active_sessions, trace>>
            /\ outbox' = no_session_reply("end_proctoring")
            /\ last' = Did("end_proctoring", sid, "no_session")
       ELSE /\ UNCHANGED <<active_sessions, trace>>
            /\ outbox' = <<[event |-> "proctoring_ended", status |-> "success",
                            report |-> generate_report(active_sessions[sid], now)]>>
            /\ last' = Did("end_proctoring", sid, "ended")

\* @socketio.on('end_proctoring')
end_proctoring(sid) ==
    /\ UNCHANGED <<now, db_writes, running, recorder, evaluator>>
    /\ IF sid \notin DOMAIN active_sessions
       THEN /\ UNCHANGED <<active_sessions, trace>>
            /\ outbox' = no_session_reply("end_proctoring")
            /\ last' = Did("end_proctoring", sid, "no_session")
       ELSE /\ active_sessions' = DictDel(active_sessions, sid)
            /\ outbox' = <<[event |-> "proctoring_ended", status |-> "success",
                            report |-> generate_report(active_sessions[sid], now)]>>
            /\ trace' = [trace EXCEPT ![sid] = NoTrace]
            /\ last' = Did("end_proctoring", sid, "ended")

\* @socketio.on('disconnect')
handle_disconnect(sid) ==
    /\ UNCHANGED <<now, db_writes, running, recorder, evaluator>>
    /\ outbox' = <<>>
    /\ IF sid \in DOMAIN active_sessions
       THEN /\ active_sessions' = DictDel(active_sessions, sid)
            /\ trace' = [trace EXCEPT ![sid] = NoTrace]
            /\ last' = Did("disconnect", sid, "removed")
       ELSE /\ UNCHANGED <<active_sessions, trace>>
            /\ last' = Did("disconnect", sid, "no_session")

----------------------------------------------------------------------------
(* The lifecycle handlers statement by statement.  Flask-SocketIO runs    *)
(* each event's handler in a task of its own and the registry has no      *)
(* lock, so the handlers of one connection interleave between statements. *)

\* the handlers that can be in flight at once
RaceMaxHandlers == 3

Threads == 1..RaceMaxHandlers

\* a thread that runs no handler
Idle == [op |-> "idle", pc |-> "idle", session |-> <<>>]

\* start_proctoring, lines 367-379: the session is built and registered,
\* then proctoring_started is emitted
start_proctoring_step(th, sid, data) ==
    /\ running[th].op = "start_proctoring"
    /\ UNCHANGED <<now, db_writes, trace, recorder, evaluator>>
    /\ IF running[th].pc = "begin"
       THEN /\ active_sessions' =
                   DictPut(active_sessions, sid,
                           ProctorSession_init(data.studentId[1], data.examId,
                                               TRUE, now))
            /\ outbox' = <<>>
            /\ running' = [running EXCEPT ![th].pc = "emit"]
            /\ last' = Did("start_proctoring", sid, "registered")
       ELSE /\ running[th].pc = "emit"
            /\ UNCHANGED active_sessions
            /\ outbox' = <<[event |-> "proctoring_started",
                            status |-> "success", sessionId |-> sid]>>
            /\ running' = [running EXCEPT ![th].pc = "done"]
            /\ last' = Did("start_proctoring", sid, "started")

\* end_proctoring, lines 455-470: the lookup, the report and its emit, the
\* del; a KeyError of the del is caught at 472 and answered with an error
end_proctoring_step(th, sid) ==
    /\ running[th].op = "end_proctoring"
    /\ UNCHANGED <<now, db_writes, trace, recorder, evaluator>>
    /\ IF running[th].pc = "begin"
       THEN /\ UNCHANGED active_sessions
            /\ IF sid \notin DOMAIN active_sessions
               THEN /\ outbox' = no_session_reply("end_proctoring")
                    /\ running' = [running EXCEPT ![th].pc = "done"]
                    /\ last' = Did("end_proctoring", sid, "no_session")
               ELSE /\ outbox' = <<>>
                    /\ running' = [running EXCEPT
                                      ![th].pc = "emit",
                                      ![th].session = <<active_sessions[sid]>>]
                    /\ last' = Did("end_proctoring", sid, "found")
       ELSE IF running[th].pc = "emit"
       THEN /\ UNCHANGED active_sessions
            /\ outbox' = <<[event |-> "proctoring_ended", status |-> "success",
                            report |-> generate_report(running[th].session[1],
                                                       now)]>>
            /\ running' = [running EXCEPT ![th].pc = "del"]
            /\ last' = Did("end_proctoring", sid, "reported")
       ELSE /\ running[th].pc = "del"
            /\ IF sid \in DOMAIN active_sessions
               THEN /\ active_sessions' = DictDel(active_sessions, sid)
                    /\ outbox' = <<>>
                    /\ running' = [running EXCEPT ![th].pc = "done"]
                    /\ last' = Did("end_proctoring", sid, "ended")
               ELSE /\ UNCHANGED active_sessions
                    /\ outbox' = <<[event |-> "error", message |-> "exception"]>>
                    /\ running' = [running EXCEPT ![th].pc = "failed"]
                    /\ last' = Did("end_proctoring", sid, "key_error")

\* handle_disconnect, lines 359-362: the membership test, the read, the
\* del; a KeyError of the read or of the del is caught nowhere
handle_disconnect_step(th, sid) ==
    /\ running[th].op = "disconnect"
    /\ UNCHANGED <<now, db_writes, trace, recorder, evaluator>>
    /\ outbox' = <<>>
    /\ IF running[th].pc = "begin"
       THEN /\ UNCHANGED active_sessions
            /\ running' = [running EXCEPT
                              ![th].pc = IF sid \in DOMAIN active_sessions
                                         THEN "read" ELSE "done"]
            /\ last' = Did("disconnect", sid, "tested")
       ELSE IF running[th].pc = "read"
       THEN /\ UNCHANGED active_sessions
            /\ running' = [running EXCEPT
                              ![th].pc = IF sid \in DOMAIN active_sessions
                                         THEN "del" ELSE "failed"]
            /\ last' = Did("disconnect", sid, "read")
       ELSE /\ running[th].pc = "del"
            /\ IF sid \in DOMAIN active_sessions
               THEN /\ active_sessions' = DictDel(active_sessions, sid)
                    /\ running' = [running EXCEPT ![th].pc = "done"]
                    /\ last' = Did("disconnect", sid, "removed")
               ELSE /\ UNCHANGED active_sessions
                    /\ running' = [running EXCEPT ![th].pc = "failed"]
                    /\ last' = Did("disconnect", sid, "key_error")

----------------------------------------------------------------------------
(* gesture-typing-system/integrated_exam_proctor.py: ScreenRecorder.  A   *)
(* frame is the number of the grab that made it; 0 is None.               *)

\* queue.Queue(maxsize=30)
QUEUE_MAXSIZE == 30

\* ScreenRecorder.__init__ and start_recording
ScreenRecorder_init ==
    [frames |-> <<>>, last_frame |-> 0, pc |-> "grab", frame |-> 0,
     grabbed |-> 0, evicted |-> {}, abandoned |-> {}]

\* ScreenRecorder._record_loop, statement by statement: the grab of lines
\* 138-150, the put of 154, and on queue.Full the get_nowait of 160 and
\* the put of 161, whose exceptions line 162 swallows
_record_loop ==
    /\ UNCHANGED <<now, active_sessions, outbox, last, trace, db_writes, running,
                   evaluator>>
    /\ IF recorder.pc = "grab"
       THEN recorder' = [recorder EXCEPT !.frame = recorder.grabbed + 1,
                                         !.last_frame = recorder.grabbed + 1,
                                         !.grabbed = @ + 1,
                                         !.pc = "put"]
       ELSE IF recorder.pc = "put"
       THEN (IF Len(recorder.frames) < QUEUE_MAXSIZE
             THEN recorder' = [recorder EXCEPT
                                  !.frames = Append(@, recorder.frame),
                                  !.pc = "grab"]
             ELSE recorder' = [recorder EXCEPT !.pc = "get_nowait"])
       ELSE IF recorder.pc = "get_nowait"
       THEN (IF recorder.frames # <<>>
             THEN recorder' = [recorder EXCEPT
                                  !.frames = Tail(@),
                                  !.evicted = @ \cup {Head(recorder.frames)},
                                  !.pc = "put_again"]
             ELSE recorder' = [recorder EXCEPT
                                  !.abandoned = @ \cup {recorder.frame},
                                  !.pc = "grab"])
       ELSE /\ recorder.pc = "put_again"
            /\ IF Len(recorder.frames) < QUEUE_MAXSIZE
               THEN recorder' = [recorder EXCEPT
                                    !.frames = Append(@, recorder.frame),
                                    !.pc = "grab"]
               ELSE recorder' = [recorder EXCEPT
                                    !.abandoned = @ \cup {recorder.frame},
                                    !.pc = "grab"]

\* ScreenRecorder.get_latest_frame: the head of the queue, or last_frame
\* when the queue is empty
get_latest_frame ==
    /\ UNCHANGED <<now, active_sessions, outbox, last, trace, db_writes, running,
                   evaluator>>
    /\ recorder' = [recorder EXCEPT
                       !.frames = IF @ = <<>> THEN @ ELSE Tail(@)]

----------------------------------------------------------------------------
(* evaluation/ghost_typing_evaluator.py: GhostTypingEvaluator.  A label   *)
(* is the sequence of its characters; a submission without a label has    *)
(* the empty one.                                                         *)

\* GhostTypingEvaluator.__init__
GhostTypingEvaluator_init == [sessions |-> <<>>]

\* the letters of the labels, lower case and upper case
Letters ==
    {<<"a", "A">>, <<"b", "B">>, <<"c", "C">>, <<"d", "D">>, <<"e", "E">>,
     <<"g", "G">>, <<"h", "H">>, <<"i", "I">>, <<"l", "L">>, <<"n", "N">>,
     <<"r", "R">>, <<"t", "T">>, <<"u", "U">>}

\* str.upper() of one character
upper_char(c) ==
    IF \E p \in Letters : p[1] = c
    THEN (CHOOSE p \in Letters : p[1] = c)[2]
    ELSE c

\* str.upper()
upper(label) == [i \in DOMAIN label |-> upper_char(label[i])]

\* the literals 'CHEATING', 'GENUINE' and 'unlabeled'
CHEATING == <<"C", "H", "E", "A", "T", "I", "N", "G">>

GENUINE == <<"G", "E", "N", "U", "I", "N", "E">>

unlabeled == <<"u", "n", "l", "a", "b", "e", "l", "e", "d">>

\* lines 84-88 and 136-140 without 'MULTIPLE_FACES' in the list
has_critical_violation_without_faces(violation_types) ==
    \E i \in DOMAIN violation_types :
        violation_types[i] \in {"GHOST_TYPING_DETECTED", "MULTIPLE_PERSONS"}

\* lines 84-88 and 136-140
has_critical_violation(violation_types) ==
    \E i \in DOMAIN violation_types :
        violation_types[i] \in
            {"GHOST_TYPING_DETECTED", "MULTIPLE_PERSONS", "MULTIPLE_FACES"}

\* 'GHOST_TYPING_DETECTED' in violation_types
has_ghost_typing(violation_types) ==
    \E i \in DOMAIN violation_types :
        violation_types[i] = "GHOST_TYPING_DETECTED"

\* the if chain of lines 98-105 and 144-151
classification(has_any_violation, manual_label) ==
    IF has_any_violation /\ manual_label = CHEATING THEN "TP"
    ELSE IF ~has_any_violation /\ manual_label = GENUINE THEN "TN"
    ELSE IF has_any_violation /\ manual_label = GENUINE THEN "FP"
    ELSE "FN"

\* the session_data of lines 107-120 and 153-162
session_data(session_id, violation_types, manual_label) ==
    [session_id |-> session_id,
     violations_detected |-> violation_types,
     has_ghost_typing |-> has_ghost_typing(violation_types),
     violation_count |-> Len(violation_types),
     manual_label |-> manual_label,
     system_prediction |->
         IF has_critical_violation(violation_types) THEN "CHEATING"
         ELSE "GENUINE",
     classification |->
         classification(has_critical_violation(violation_types), manual_label)]

\* [v.get('type') for v in violations if v.get('type')]: a violation
\* without a type has type ""
types_of(violations) ==
    LET typed == SelectSeq(violations, LAMBDA v : v.type # "")
    IN [i \in DOMAIN typed |-> typed[i].type]

\* one turn of the loop of process_submissions, lines 73-123
process_submission(sessions, sub) ==
    IF sub.label = <<>> \/ sub.label = unlabeled THEN sessions
    ELSE Append(sessions,
                session_data(sub.id, types_of(sub.violations), upper(sub.label)))

RECURSIVE processed(_, _)
\* the loop of process_submissions over submissions
processed(sessions, submissions) ==
    IF submissions = <<>> THEN sessions
    ELSE processed(process_submission(sessions, Head(submissions)),
                   Tail(submissions))

\* GhostTypingEvaluator.process_submissions
process_submissions(submissions) ==
    /\ evaluator' = [evaluator EXCEPT !.sessions = processed(@, submissions)]
    /\ UNCHANGED <<now, active_sessions, outbox, last, trace, db_writes, running,
                   recorder>>

\* GhostTypingEvaluator.add_manual_session
add_manual_session(session_id, violations_detected, manual_label) ==
    /\ evaluator' =
           [evaluator EXCEPT
               !.sessions = Append(@, session_data(session_id,
                                                   violations_detected,
                                                   upper(manual_label)))]
    /\ UNCHANGED <<now, active_sessions, outbox, last, trace, db_writes, running,
                   recorder>>

\* y_pred and y_true of lines 176-177
y_pred(sessions) ==
    [i \in DOMAIN sessions |->
        IF sessions[i].system_prediction = "CHEATING" THEN 1 ELSE 0]

y_true(sessions) ==
    [i \in DOMAIN sessions |-> IF sessions[i].manual_label = CHEATING THEN 1 ELSE 0]

\* sklearn's confusion_matrix(y_true, y_pred).ravel(): a square matrix over
\* the labels that occur in y_true or y_pred, row by row; true labels are
\* the rows.  With one label only it has a single cell.
confusion_matrix_ravel(yt, yp) ==
    LET labels == {yt[i] : i \in DOMAIN yt} \cup {yp[i] : i \in DOMAIN yp}
        cell(t, p) == Cardinality({i \in DOMAIN yt : yt[i] = t /\ yp[i] = p})
    IN IF labels = {0, 1}
       THEN <<cell(0, 0), cell(0, 1), cell(1, 0), cell(1, 1)>>
       ELSE <<Len(yt)>>

\* lines 176-179: tn, fp, fn, tp
matrix_cells(sessions) ==
    confusion_matrix_ravel(y_true(sessions), y_pred(sessions))

\* GhostTypingEvaluator.calculate_metrics, its counts (the rates of lines
\* 182-193 are left out).  Unpacking a matrix of one cell into tn, fp, fn,
\* tp raises ValueError, which nothing catches.
calculate_metrics_result(sessions) ==
    IF Len(sessions) = 0
    THEN [path |-> "no_sessions", metrics |-> <<>>]
    ELSE LET cm == matrix_cells(sessions)
         IN IF Len(cm) # 4 THEN [path |-> "raised", metrics |-> <<>>]
            ELSE [path |-> "returned",
                  metrics |->
                      <<[total_sessions |-> cm[1] + cm[2] + cm[3] + cm[4],
                         confusion_matrix |->
                             [TP |-> cm[4], TN |-> cm[1], FP |-> cm[2],
                              FN |-> cm[3]],
                         breakdown |->
                             [genuine_sessions |-> cm[1] + cm[2],
                              cheating_sessions |-> cm[4] + cm[3],
                              correctly_classified |-> cm[4] + cm[1],
                              incorrectly_classified |-> cm[2] + cm[3]]]>>]

\* GhostTypingEvaluator.calculate_metrics; last holds what it returned
calculate_metrics ==
    /\ last' = [op |-> "calculate_metrics", sid |-> "none", t |-> now,
                path |-> calculate_metrics_result(evaluator.sessions).path,
                evaluated |-> FALSE, violations |-> <<>>, hands |-> <<>>,
                screen |-> <<>>,
                metrics |-> calculate_metrics_result(evaluator.sessions).metrics]
    /\ UNCHANGED <<now, active_sessions, outbox, trace, db_writes, running,
                   recorder, evaluator>>

\* the wall clock advances by one second
Tick ==
    /\ now' = now + 1
    /\ outbox' = <<>>
    /\ last' = [Did("tick", "none", "none") EXCEPT !.t = now + 1]
    /\ UNCHANGED <<active_sessions, trace, db_writes, running, recorder,
                 evaluator>>

----------------------------------------------------------------------------
(* The client: what the frames show *)

\* a hand over the keyboard: score 10.5, confidence 1.0
TypingHand ==
    [raises |-> FALSE, in_typing_area |-> TRUE, curled_fingers |-> 4,
     fingers_up |-> 0, all_tips_close |-> FALSE, centered |-> TRUE]

\* a raised open hand: score 1.0, confidence 0.10
IdleHand ==
    [raises |-> FALSE, in_typing_area |-> FALSE, curled_fingers |-> 0,
     fingers_up |-> 4, all_tips_close |-> FALSE, centered |-> FALSE]

\* a hand scoring exactly 3.5: confidence 0.35, which is not > 0.35
BorderHand ==
    [raises |-> FALSE, in_typing_area |-> FALSE, curled_fingers |-> 2,
     fingers_up |-> 3, all_tips_close |-> FALSE, centered |-> TRUE]

\* a camera frame, by what the primitives find in it
CameraFrame(kind) ==
    LET f == [faces |-> 1, face_error |-> FALSE, hands |-> <<>>,
              hand_error |-> FALSE]
    IN CASE kind = "no_hands" -> f
         [] kind = "typing" -> [f EXCEPT !.hands = <<TypingHand>>]
         [] kind = "idle" -> [f EXCEPT !.hands = <<IdleHand>>]
         [] kind = "border" -> [f EXCEPT !.hands = <<BorderHand, IdleHand>>]
         [] kind = "hand_error" -> [f EXCEPT !.hand_error = TRUE]
         [] kind = "no_face" -> [f EXCEPT !.faces = 0, !.hands = <<TypingHand>>]
         [] kind = "two_faces" -> [f EXCEPT !.faces = 2, !.hands = <<TypingHand>>]
         [] kind = "face_error" ->
                [f EXCEPT !.face_error = TRUE, !.hands = <<TypingHand>>]

\* a screen frame, by its change against the previous frame: a few
\* characters appearing (A, B: the same region, lighter and heavier),
\* nothing, a scroll, and a pointer moving over the whole editor
ScreenFrame(kind) ==
    LET f == [raises |-> FALSE, empty |-> FALSE, low |-> 300, med |-> 100,
              high |-> 0, px_per_unit |-> 1, max_quad |-> 300, min_quad |-> 0]
    IN CASE kind = "type_a" -> f
         [] kind = "type_b" -> [f EXCEPT !.med = 200, !.high = 50]
         [] kind = "static" -> [f EXCEPT !.low = 0, !.med = 0, !.max_quad = 0]
         [] kind = "scroll" ->
                [f EXCEPT !.low = 5000, !.med = 4000, !.high = 3000,
                          !.max_quad = 1300, !.min_quad = 1200]
         [] kind = "mouse" -> [f EXCEPT !.max_quad = 80, !.min_quad = 70]
         [] kind = "paste" -> [f EXCEPT !.low = 1300, !.max_quad = 1300]
         [] kind = "empty" -> [f EXCEPT !.empty = TRUE]

\* a video_frame or screen_frame payload that decodes to frame
Payload(frame) == [malformed |-> FALSE, undecodable |-> FALSE, frame |-> frame]

\* a start_proctoring payload
StartData == [valid |-> TRUE, studentId |-> <<"student1">>, examId |-> "exam1"]

\* the server's start: an empty registry, the clock at Epoch
Epoch == 100

EmptyDict == [x \in {} |-> 0]

\* the constructor that raised at a connection's start: none, or one of
\* the three of lines 88-90
Raisers == {"none", "HandDetector", "UpperBodyDetector", "ScreenActivityDetector"}

Env0 ==
    [cam |-> "", cam_switches |-> 0, scr |-> "", scr_switches |-> 0,
     payload |-> "", msgs |-> 0, bad |-> 0, pace |-> 0, owed |-> <<>>,
     inbox |-> <<>>, word |-> "", label |-> <<>>,
     raised |-> [sid \in Sids |-> "none"]]

Init ==
    /\ now = Epoch
    /\ active_sessions = EmptyDict
    /\ outbox = <<>>
    /\ last = [Did("none", "none", "none") EXCEPT !.t = Epoch]
    /\ trace = [sid \in Sids |-> NoTrace]
    /\ env = Env0
    /\ db_writes = <<>>
    /\ running = [th \in Threads |-> Idle]
    /\ recorder = ScreenRecorder_init
    /\ evaluator = GhostTypingEvaluator_init

\* the client opens a session on a free connection
Open(sid) ==
    /\ sid \notin DOMAIN active_sessions
    /\ start_proctoring(sid, StartData, TRUE)
    /\ UNCHANGED env

\* the client sends a camera frame: one of kinds, changing what the camera
\* shows at most max_switches times, max_frames frames in all
SendCamera(sid, kinds, max_frames, max_switches) ==
    /\ sid \in DOMAIN active_sessions
    /\ active_sessions[sid].frame_count < max_frames
    /\ \E k \in kinds :
          /\ k = env.cam \/ env.cam = "" \/ env.cam_switches < max_switches
          /\ handle_video_frame(sid, Payload(CameraFrame(k)))
          /\ env' = [env EXCEPT
                        !.cam = k,
                        !.cam_switches =
                            IF k = env.cam \/ env.cam = "" THEN @ ELSE @ + 1]

\* the client sends a screen frame, likewise
SendScreen(sid, kinds, max_frames, max_switches) ==
    /\ sid \in DOMAIN active_sessions
    /\ active_sessions[sid].screen_frame_count < max_frames
    /\ \E k \in kinds :
          /\ k = env.scr \/ env.scr = "" \/ env.scr_switches < max_switches
          /\ handle_screen_frame(sid, Payload(ScreenFrame(k)))
          /\ env' = [env EXCEPT
                        !.scr = k,
                        !.scr_switches =
                            IF k = env.scr \/ env.scr = "" THEN @ ELSE @ + 1]

\* a second passes, up to horizon seconds after the server's start
Advance(horizon) ==
    /\ now < Epoch + horizon
    /\ Tick
    /\ UNCHANGED env

----------------------------------------------------------------------------
(* The screen adapter alone: one session, screen frames and the clock *)

ScreenMaxFrames == 13
ScreenMaxSwitches == 3
ScreenHorizon == 1

ScreenOpen == Open("sid1")

ScreenSend ==
    SendScreen("sid1", {"type_a", "type_b", "static"},
               ScreenMaxFrames, ScreenMaxSwitches)

ScreenAdvance == Advance(ScreenHorizon)

NextScreen == ScreenOpen \/ ScreenSend \/ ScreenAdvance

SpecScreen == Init /\ [][NextScreen]_vars

----------------------------------------------------------------------------
(* The fusion thresholds: one session.  In the first second the client    *)
(* sends camera frames and then a run of screen frames that latches       *)
(* screen typing; after it, camera frames and the clock in any order.     *)
(* The camera shows idle hands that may leave the picture for good.       *)

FusionMaxFrames == 31
FusionHorizon == 2
WarmupFrames == 11

\* the screen while the examinee's editor fills: lighter, then heavier changes
TypingScript(n) == IF n < 5 THEN "type_a" ELSE "type_b"

\* no screen frame sent yet, or the whole run sent
Warm(sid) ==
    /\ sid \in DOMAIN active_sessions
    /\ active_sessions[sid].screen_frame_count \in {0, WarmupFrames}

Warmed(sid) ==
    /\ sid \in DOMAIN active_sessions
    /\ active_sessions[sid].screen_frame_count = WarmupFrames

SendWarmup(sid) ==
    /\ sid \in DOMAIN active_sessions
    /\ SendScreen(sid, {TypingScript(active_sessions[sid].screen_frame_count)},
                  WarmupFrames, WarmupFrames)

FusionOpen == Open("sid1")

\* what the camera can show next: hands that left do not come back
FusionKinds == IF env.cam = "no_hands" THEN {"no_hands"} ELSE {"no_hands", "idle"}

FusionCamera ==
    /\ Warm("sid1")
    /\ SendCamera("sid1", FusionKinds, FusionMaxFrames, 1)

FusionScreen == SendWarmup("sid1")

FusionAdvance == Warmed("sid1") /\ Advance(FusionHorizon)

NextFusion == FusionOpen \/ FusionCamera \/ FusionScreen \/ FusionAdvance

SpecFusion == Init /\ [][NextFusion]_vars

----------------------------------------------------------------------------
(* The timers: one session whose screen typing is latched before the      *)
(* first camera frame, then camera frames of one kind over many seconds.  *)

CooldownMaxFrames == 32
CooldownMaxSwitches == 0
CooldownHorizon == 11

CooldownOpen == Open("sid1")

CooldownCamera ==
    /\ Warmed("sid1")
    /\ SendCamera("sid1", {"no_hands", "idle"},
                  CooldownMaxFrames, CooldownMaxSwitches)

CooldownScreen == SendWarmup("sid1")

CooldownAdvance == Warmed("sid1") /\ Advance(CooldownHorizon)

NextCooldown ==
    CooldownOpen \/ CooldownCamera \/ CooldownScreen \/ CooldownAdvance

SpecCooldown == Init /\ [][NextCooldown]_vars

----------------------------------------------------------------------------
(* The hand smoother: one session, camera frames only. *)

HandsMaxFrames == 22
HandsMaxSwitches == 2

HandsOpen == Open("sid1")

HandsCamera ==
    SendCamera("sid1", {"no_hands", "typing", "border", "hand_error"},
               HandsMaxFrames, HandsMaxSwitches)

NextHands == HandsOpen \/ HandsCamera

SpecHands == Init /\ [][NextHands]_vars

----------------------------------------------------------------------------
(* The sample history: one session, with or without detectors, camera     *)
(* frames past the history's capacity, and the clock.                     *)

HistoryMaxFrames == 42
HistoryMaxSwitches == 1
HistoryHorizon == 2

HistoryOpen ==
    /\ "sid1" \notin DOMAIN active_sessions
    /\ \E init_ok \in BOOLEAN : start_proctoring("sid1", StartData, init_ok)
    /\ UNCHANGED env

HistoryCamera ==
    SendCamera("sid1", {"typing", "hand_error"},
               HistoryMaxFrames, HistoryMaxSwitches)

HistoryAdvance ==
    /\ "sid1" \in DOMAIN active_sessions
    /\ Advance(HistoryHorizon)

NextHistory == HistoryOpen \/ HistoryCamera \/ HistoryAdvance

SpecHistory == Init /\ [][NextHistory]_vars

----------------------------------------------------------------------------
(* The life of a session: two connections, each sending any message in    *)
(* any order (start, camera and screen frames in good, malformed and      *)
(* undecodable payloads, end, disconnect), and the clock.                 *)

LifeMaxMessages == 4
LifeHorizon == 1

\* a start_proctoring payload that is no dict
BadStartData == [valid |-> FALSE, studentId |-> <<>>, examId |-> "exam1"]

\* a payload in one of three forms: good, malformed (no 'frame' field or
\* no comma in it), undecodable (cv2.imdecode returns None)
Formed(form, frame) ==
    [malformed |-> form = "malformed", undecodable |-> form = "undecodable",
     frame |-> frame]

Forms == {"good", "malformed", "undecodable"}

\* the client's bookkeeping of one message sent
Sent(form) ==
    [env EXCEPT !.payload = form,
                !.msgs = @ + 1,
                !.bad = IF form = "good" THEN @ ELSE @ + 1]

LifeStart(sid) ==
    /\ env.msgs < LifeMaxMessages
    /\ \E data \in {StartData, BadStartData}, raiser \in Raisers :
          /\ data.valid \/ raiser = "none"
          /\ start_proctoring(sid, data, raiser = "none")
          /\ env' = [Sent(IF data.valid THEN "good" ELSE "malformed")
                        EXCEPT !.raised[sid] = IF data.valid THEN raiser ELSE @]

LifeVideo(sid) ==
    /\ env.msgs < LifeMaxMessages
    /\ \E form \in Forms, k \in {"typing", "no_face", "two_faces", "face_error"} :
          /\ form = "good" \/ k = "typing"
          /\ handle_video_frame(sid, Formed(form, CameraFrame(k)))
          /\ env' = [Sent(form) EXCEPT !.cam = k]

LifeScreen(sid) ==
    /\ env.msgs < LifeMaxMessages
    /\ \E form \in Forms :
          /\ handle_screen_frame(sid, Formed(form, ScreenFrame("type_a")))
          /\ env' = [Sent(form) EXCEPT !.scr = "type_a"]

LifeEnd(sid) ==
    /\ env.msgs < LifeMaxMessages
    /\ end_proctoring(sid)
    /\ env' = Sent("good")

LifeDisconnect(sid) ==
    /\ env.msgs < LifeMaxMessages
    /\ handle_disconnect(sid)
    /\ env' = Sent("good")

LifeAdvance == Advance(LifeHorizon)

NextLife ==
    \/ \E sid \in Sids :
          \/ LifeStart(sid)
          \/ LifeVideo(sid)
          \/ LifeScreen(sid)
          \/ LifeEnd(sid)
          \/ LifeDisconnect(sid)
    \/ LifeAdvance

SpecLife == Init /\ [][NextLife]_vars

----------------------------------------------------------------------------
(* The periodic status: one session through its fiftieth camera frame,    *)
(* with a screen frame and an undecodable camera frame at any point, all  *)
(* within one second.                                                     *)

StatusMaxFrames == 51
StatusMaxSwitches == 0
StatusMaxScreen == 1
StatusMaxDrops == 1

StatusOpen == Open("sid1")

StatusCamera ==
    SendCamera("sid1", {"typing", "no_face"}, StatusMaxFrames, StatusMaxSwitches)

StatusDrop ==
    /\ "sid1" \in DOMAIN active_sessions
    /\ env.bad < StatusMaxDrops
    /\ handle_video_frame("sid1", Formed("undecodable", CameraFrame("typing")))
    /\ env' = Sent("undecodable")

StatusScreen == SendScreen("sid1", {"type_a"}, StatusMaxScreen, 0)

NextStatus == StatusOpen \/ StatusCamera \/ StatusDrop \/ StatusScreen

SpecStatus == Init /\ [][NextStatus]_vars

----------------------------------------------------------------------------
(* A steady stream: the screen shows typing, then the camera sends        *)
(* between one and StreamMaxRate frames a second for StreamHorizon        *)
(* seconds, frames whose sample has hands_visible False: the hand         *)
(* detector raises on them, or it finds idle hands that it has not yet    *)
(* seen in VISIBLE_MIN frames.  Frames keep arriving and the clock keeps  *)
(* advancing: both are weakly fair.                                       *)

StreamMaxRate == 3
StreamHorizon == 32

\* the frames the camera can send next: once the detector has raised it
\* goes on raising
StreamKinds ==
    {"hand_error"} \cup
    (IF /\ env.cam # "hand_error"
        /\ SumSeq(active_sessions["sid1"].hand_detector.hands_visible_history)
               < VISIBLE_MIN - 1
     THEN {"idle"} ELSE {})

\* the client's bookkeeping of one camera frame of the stream
Streamed(k) == [env EXCEPT !.cam = k, !.pace = @ + 1]

\* the client sends the next camera frame of the stream
StreamSend ==
    /\ Warmed("sid1")
    /\ env.pace < StreamMaxRate
    /\ \E k \in StreamKinds : env' = Streamed(k)

StreamOpen == Open("sid1")

StreamScreen == SendWarmup("sid1")

StreamCamera ==
    /\ Warmed("sid1")
    /\ env.pace < StreamMaxRate
    /\ \E k \in StreamKinds :
          /\ handle_video_frame("sid1", Payload(CameraFrame(k)))
          /\ env' = Streamed(k)

StreamAdvance ==
    /\ Warmed("sid1")
    /\ env.pace >= 1
    /\ now < Epoch + StreamHorizon
    /\ Tick
    /\ env' = [env EXCEPT !.pace = 0]

NextStream == StreamOpen \/ StreamScreen \/ StreamCamera \/ StreamAdvance

\* handle_video_frame answers every payload, so StreamCamera is enabled
\* exactly when StreamSend is, and the steps that change env as StreamSend
\* does are the StreamCamera steps
SpecStream ==
    /\ Init
    /\ [][NextStream]_vars
    /\ WF_env(StreamSend)
    /\ WF_vars(StreamAdvance)

----------------------------------------------------------------------------
(* A transient occlusion: the screen shows typing and the examinee types, *)
(* but for one stretch of camera frames the hands are out of sight (none  *)
(* found, or the hand detector raises); the clock advances at any point.  *)

OcclusionMaxFrames == 50
OcclusionHorizon == 2

\* what the camera can show next: hands, then the stretch without, then
\* hands again
OcclusionKinds ==
    CASE env.cam = "" -> {"typing"}
      [] env.cam_switches = 0 -> {"typing", "hand_error", "no_hands"}
      [] env.cam_switches = 1 -> {env.cam, "typing"}
      [] OTHER -> {"typing"}

OcclusionOpen == Open("sid1")

OcclusionScreen == SendWarmup("sid1")

OcclusionCamera ==
    /\ Warmed("sid1")
    /\ SendCamera("sid1", OcclusionKinds, OcclusionMaxFrames, 2)

OcclusionAdvance == Warmed("sid1") /\ Advance(OcclusionHorizon)

NextOcclusion ==
    OcclusionOpen \/ OcclusionScreen \/ OcclusionCamera \/ OcclusionAdvance

SpecOcclusion == Init /\ [][NextOcclusion]_vars

----------------------------------------------------------------------------
(* Twin sessions: connection sid1 is sent a session's messages, and sid2  *)
(* is sent the same messages in the same order at the same instants, up   *)
(* to TwinMaxLag messages behind; the clock advances only when sid2 has   *)
(* caught up.                                                             *)

TwinMaxFrames == 31
TwinMaxLag == 2
TwinHorizon == 2

\* what the camera can show next: two persons in the first two frames at
\* most, then nobody's hands
TwinKinds ==
    IF env.cam # "no_hands" /\ active_sessions["sid1"].frame_count < 2
    THEN {"no_hands", "two_faces"}
    ELSE {"no_hands"}

\* the messages sid1 can be sent next
TwinMessages ==
    IF "sid1" \notin DOMAIN active_sessions
    THEN {[op |-> "start", kind |-> ""]}
    ELSE (IF Warm("sid1") /\ active_sessions["sid1"].frame_count < TwinMaxFrames
          THEN {[op |-> "video", kind |-> k] : k \in TwinKinds}
          ELSE {})
         \cup
         (IF active_sessions["sid1"].screen_frame_count < WarmupFrames
          THEN {[op |-> "screen",
                 kind |-> TypingScript(active_sessions["sid1"].screen_frame_count)]}
          ELSE {})

\* the server receives message m on connection sid
Deliver(sid, m) ==
    \/ m.op = "start" /\ start_proctoring(sid, StartData, TRUE)
    \/ m.op = "video" /\ handle_video_frame(sid, Payload(CameraFrame(m.kind)))
    \/ m.op = "screen" /\ handle_screen_frame(sid, Payload(ScreenFrame(m.kind)))

TwinLead ==
    /\ Len(env.owed) < TwinMaxLag
    /\ \E m \in TwinMessages :
          /\ Deliver("sid1", m)
          /\ env' = [env EXCEPT !.owed = Append(@, m),
                                !.cam = IF m.op = "video" THEN m.kind ELSE @]

TwinFollow ==
    /\ env.owed # <<>>
    /\ Deliver("sid2", Head(env.owed))
    /\ env' = [env EXCEPT !.owed = Tail(@)]

TwinAdvance ==
    /\ env.owed = <<>>
    /\ Warmed("sid1")
    /\ Advance(TwinHorizon)

NextTwin == TwinLead \/ TwinFollow \/ TwinAdvance

SpecTwin == Init /\ [][NextTwin]_vars

----------------------------------------------------------------------------
(* Racing lifecycle messages: connection sid1 sends start_proctoring,     *)
(* end_proctoring and disconnects, at most RaceMaxHandlers messages in    *)
(* all, and the server runs their handlers concurrently.  Each            *)
(* start_proctoring names a student of its own.                           *)

\* the start_proctoring payload of the message thread th handles
RaceData(th) == [StartData EXCEPT !.studentId = <<ToString(th)>>]

\* the client's inbox after the step's emits
Received == [env EXCEPT !.inbox = @ \o outbox']

\* a message arrives and its handler starts on a free thread
RaceInvoke(th) ==
    /\ running[th].op = "idle"
    /\ \E op \in {"start_proctoring", "end_proctoring", "disconnect"} :
          running' = [running EXCEPT ![th] = [Idle EXCEPT !.op = op,
                                                         !.pc = "begin"]]
    /\ UNCHANGED <<now, active_sessions, outbox, last, trace, env, db_writes,
                   recorder, evaluator>>

RaceStart(th) == start_proctoring_step(th, "sid1", RaceData(th)) /\ env' = Received

RaceEnd(th) == end_proctoring_step(th, "sid1") /\ env' = Received

RaceDisconnect(th) == handle_disconnect_step(th, "sid1") /\ env' = Received

NextRace ==
    \E th \in Threads :
        \/ RaceInvoke(th)
        \/ RaceStart(th)
        \/ RaceEnd(th)
        \/ RaceDisconnect(th)

SpecRace == Init /\ [][NextRace]_vars

----------------------------------------------------------------------------
(* The screen recorder: its thread grabs RecorderMaxFrames frames while   *)
(* the main loop takes up to RecorderMaxTaken frames off the queue, at    *)
(* any points between the recorder's statements.                          *)

RecorderMaxFrames == 32
RecorderMaxTaken == 31

RecorderGrab ==
    /\ recorder.pc = "grab" => recorder.grabbed < RecorderMaxFrames
    /\ _record_loop
    /\ UNCHANGED env

RecorderTake ==
    /\ env.msgs < RecorderMaxTaken
    /\ get_latest_frame
    /\ env' = [env EXCEPT !.msgs = @ + 1]

NextRecorder == RecorderGrab \/ RecorderTake

SpecRecorder == Init /\ [][NextRecorder]_vars

----------------------------------------------------------------------------
(* The screen adapter's exclusions: one session whose editor fills as in  *)
(* TypingScript; after WarmupFrames frames the screen shows typing, a     *)
(* block of text pasted into one quadrant (every test of typing passes    *)
(* but too_large), a scroll or nothing.  The adapter's owner may reset it *)
(* after any frame.                                                       *)

ExclusionMaxFrames == 15

ExclusionOpen == Open("sid1")

\* what the screen can show next
ExclusionKinds ==
    IF active_sessions["sid1"].screen_frame_count < WarmupFrames
    THEN {TypingScript(active_sessions["sid1"].screen_frame_count)}
    ELSE {"type_b", "paste", "scroll", "static"}

ExclusionScreen ==
    /\ "sid1" \in DOMAIN active_sessions
    /\ active_sessions["sid1"].screen_frame_count < ExclusionMaxFrames
    /\ \E k \in ExclusionKinds :
          /\ handle_screen_frame("sid1", Payload(ScreenFrame(k)))
          /\ env' = [env EXCEPT !.scr = k]

\* ScreenActivityDetector.reset() on the session's adapter
ExclusionReset ==
    /\ "sid1" \in DOMAIN active_sessions
    /\ active_sessions["sid1"].screen_detector.has_prev
    /\ active_sessions' =
           [active_sessions EXCEPT !["sid1"].screen_detector = screen_reset(@)]
    /\ env' = [env EXCEPT !.scr = "reset"]
    /\ UNCHANGED <<now, outbox, last, trace, db_writes, running, recorder,
                   evaluator>>

NextExclusion == ExclusionOpen \/ ExclusionScreen \/ ExclusionReset

SpecExclusion == Init /\ [][NextExclusion]_vars

----------------------------------------------------------------------------
(* Starting again: the clients of two connections send start_proctoring,  *)
(* RestartMaxStarts times in all, whether or not the connection has a     *)
(* session; the first connection sends camera and screen frames, and the  *)
(* clock advances.                                                        *)

RestartMaxStarts == 3
RestartMaxFrames == 2
RestartHorizon == 1

RestartStart(sid) ==
    /\ env.msgs < RestartMaxStarts
    /\ start_proctoring(sid, StartData, TRUE)
    /\ env' = [env EXCEPT !.msgs = @ + 1]

RestartCamera ==
    SendCamera("sid1", {"typing", "two_faces"},
               RestartMaxFrames, RestartMaxFrames)

RestartScreen ==
    SendScreen("sid1", {"type_a"}, RestartMaxFrames, RestartMaxFrames)

RestartAdvance == Advance(RestartHorizon)

NextRestart ==
    \/ \E sid \in Sids : RestartStart(sid)
    \/ RestartCamera
    \/ RestartScreen
    \/ RestartAdvance

SpecRestart == Init /\ [][NextRestart]_vars

----------------------------------------------------------------------------
(* The evaluator: labelled sessions are classified one at a time, from a  *)
(* fetched submission or added by hand.  A label is genuine or cheating   *)
(* in lower case, capitalised or in upper case, or unset.                 *)

EvalMaxSessions == 1
EvalMaxViolations == 2

\* the words of the labels, in lower case
Word(name) ==
    IF name = "cheating" THEN <<"c", "h", "e", "a", "t", "i", "n", "g">>
    ELSE IF name = "unclear" THEN <<"u", "n", "c", "l", "e", "a", "r">>
    ELSE <<"g", "e", "n", "u", "i", "n", "e">>

\* a word with its first k letters in upper case
Cased(w, k) == [i \in DOMAIN w |-> IF i <= k THEN upper_char(w[i]) ELSE w[i]]

\* the violation types of a session's log
LoggedTypes ==
    {"GHOST_TYPING_DETECTED", "MULTIPLE_PERSONS", "MULTIPLE_FACES",
     "NO_FACE_DETECTED"}

\* the logs of at most EvalMaxViolations types
TypeLists == UNION {[1..n -> LoggedTypes] : n \in 0..EvalMaxViolations}

\* the client's bookkeeping of the label it gave
Labelled(name, label) == [env EXCEPT !.word = name, !.label = label]

EvalProcess ==
    /\ Len(evaluator.sessions) < EvalMaxSessions
    /\ \E name \in {"cheating", "genuine"}, types \in TypeLists,
          untyped \in BOOLEAN :
          \E label \in {Cased(Word(name), k) : k \in {0, 1, 8}}
                           \cup {<<>>, unlabeled} :
             /\ process_submissions(
                    <<[id |-> "s1", label |-> label,
                       violations |->
                           [i \in DOMAIN types |-> [type |-> types[i]]]
                           \o (IF untyped THEN <<[type |-> ""]>> ELSE <<>>)]>>)
             /\ env' = IF label \in {<<>>, unlabeled} THEN env
                       ELSE Labelled(name, label)

EvalAdd ==
    /\ Len(evaluator.sessions) < EvalMaxSessions
    /\ \E name \in {"cheating", "genuine"}, k \in {0, 1, 8}, types \in TypeLists :
          /\ add_manual_session("m1", types, Cased(Word(name), k))
          /\ env' = Labelled(name, Cased(Word(name), k))

NextEval == EvalProcess \/ EvalAdd

SpecEval == Init /\ [][NextEval]_vars

----------------------------------------------------------------------------
(* The evaluator's metrics: sessions labelled cheating, genuine or with   *)
(* another word are added, MetricsMaxSessions in all, and the metrics are *)
(* calculated at any time.                                                *)

MetricsMaxSessions == 2

\* the logs of the sessions added
MetricsLogs == {<<>>, <<"GHOST_TYPING_DETECTED">>, <<"NO_FACE_DETECTED">>}

MetricsWords == {"cheating", "genuine", "unclear"}

MetricsProcess ==
    /\ Len(evaluator.sessions) < MetricsMaxSessions
    /\ \E name \in MetricsWords, types \in MetricsLogs :
          /\ process_submissions(
                 <<[id |-> "s1", label |-> Word(name),
                    violations |-> [i \in DOMAIN types |-> [type |-> types[i]]]]>>)
          /\ env' = Labelled(name, Word(name))

MetricsAdd ==
    /\ Len(evaluator.sessions) < MetricsMaxSessions
    /\ \E name \in MetricsWords, types \in MetricsLogs :
          /\ add_manual_session("m1", types, Word(name))
          /\ env' = Labelled(name, Word(name))

MetricsCalculate == calculate_metrics /\ UNCHANGED env

NextMetrics == MetricsProcess \/ MetricsAdd \/ MetricsCalculate

SpecMetrics == Init /\ [][NextMetrics]_vars

----------------------------------------------------------------------------
(* The report: generate_report over the logs a session can have           *)
(* accumulated, applied by end_proctoring.  The log holds up to           *)
(* ReportMaxGhost ghost-typing, ReportMaxMultiple multiple-person and     *)
(* ReportMaxNoFace no-face entries, the ghost entries first or last.      *)

ReportMaxGhost == 3
ReportMaxMultiple == 2
ReportMaxNoFace == 22
ReportHorizon == 1

\* a log entry of one kind, as process_video_frame builds it
LogEntry(kind) ==
    CASE kind = "GHOST_TYPING_DETECTED" ->
             [type |-> kind, severity |-> "HIGH", timestamp |-> Epoch,
              confidence |-> 80, scenario |-> "hands_not_typing"]
      [] kind = "MULTIPLE_PERSONS" ->
             [type |-> kind, severity |-> "CRITICAL", timestamp |-> Epoch,
              people |-> 2]
      [] kind = "NO_FACE_DETECTED" ->
             [type |-> kind, severity |-> "MEDIUM", timestamp |-> Epoch]

Repeat(kind, n) == [i \in 1..n |-> LogEntry(kind)]

\* a log, its entries stamped 8 s apart in log order
LogOf(g, m, n, ghosts_first) ==
    LET entries ==
            IF ghosts_first
            THEN Repeat("GHOST_TYPING_DETECTED", g)
                 \o Repeat("MULTIPLE_PERSONS", m)
                 \o Repeat("NO_FACE_DETECTED", n)
            ELSE Repeat("NO_FACE_DETECTED", n)
                 \o Repeat("MULTIPLE_PERSONS", m)
                 \o Repeat("GHOST_TYPING_DETECTED", g)
    IN [i \in DOMAIN entries |->
            [entries[i] EXCEPT !.timestamp = Epoch + 8 * i]]

\* a session that has logged log over one camera frame per entry and more
SessionWithLog(log) ==
    [ProctorSession_init("student1", "exam1", TRUE, Epoch) EXCEPT
        !.violations = log,
        !.frame_count = 40 + Len(log),
        !.screen_frame_count = WarmupFrames]

InitReport ==
    /\ \E g \in 0..ReportMaxGhost, m \in 0..ReportMaxMultiple,
          n \in 0..ReportMaxNoFace, ghosts_first \in BOOLEAN :
          /\ now = Epoch + 8 * (g + m + n)
          /\ active_sessions =
                 DictPut(EmptyDict, "sid1",
                         SessionWithLog(LogOf(g, m, n, ghosts_first)))
          /\ last = [Did("none", "none", "none") EXCEPT
                        !.t = Epoch + 8 * (g + m + n)]
    /\ outbox = <<>>
    /\ trace = [sid \in Sids |-> NoTrace]
    /\ env = Env0
    /\ db_writes = <<>>
    /\ running = [th \in Threads |-> Idle]
    /\ recorder = ScreenRecorder_init
    /\ evaluator = GhostTypingEvaluator_init

ReportEnd == end_proctoring("sid1") /\ UNCHANGED env

ReportAdvance ==
    /\ "sid1" \in DOMAIN active_sessions
    /\ now < active_sessions["sid1"].start_time
             + 8 * Len(active_sessions["sid1"].violations) + ReportHorizon
    /\ Tick
    /\ UNCHANGED env

NextReport == ReportEnd \/ ReportAdvance

SpecReport == InitReport /\ [][NextReport]_vars

----------------------------------------------------------------------------
(* Properties.  They read what the service leaves behind (a session's     *)
(* violation log and sample history, last, trace) and count for           *)
(* themselves.                                                            *)

RECURSIVE Trues(_)
\* how many entries of a sequence of booleans are TRUE
Trues(bs) ==
    IF bs = <<>> THEN 0 ELSE (IF Head(bs) THEN 1 ELSE 0) + Trues(Tail(bs))

\* the n most recent entries of a history, oldest first
Window(h, n) ==
    LET k == IF Len(h) < n THEN Len(h) ELSE n
    IN [i \in 1..k |-> h[Len(h) - k + i]]

\* S, HA, HT, HNT over a window of samples
S_(w) == Trues([i \in DOMAIN w |-> w[i].screen_typing])

HA_(w) == Trues([i \in DOMAIN w |-> ~w[i].hands_visible])

HT_(w) == Trues([i \in DOMAIN w |-> w[i].hands_typing])

HNT_(w) == Trues([i \in DOMAIN w |-> w[i].hands_visible /\ ~w[i].hands_typing])

IsGhost(v) == v.type = "GHOST_TYPING_DETECTED"

Ghosts(log) == SelectSeq(log, IsGhost)

\* the last step processed a camera frame of a live session
VideoProcessed ==
    /\ last.op = "video_frame"
    /\ last.path = "processed"
    /\ last.sid \in DOMAIN active_sessions

\* the history, and the log before the last step's violations joined it
HistoryNow == active_sessions[last.sid].detection_history

LogBefore ==
    LET log == active_sessions[last.sid].violations
    IN SubSeq(log, 1, Len(log) - Len(last.violations))

\* no GHOST_TYPING_DETECTED in the 8 s before the last step
CooldownElapsed ==
    \A i \in DOMAIN LogBefore :
        IsGhost(LogBefore[i]) => last.t - LogBefore[i].timestamp >= 8

Scenario1Holds ==
    /\ S_(Window(HistoryNow, 20)) >= 12
    /\ HA_(Window(HistoryNow, 20)) >= 14
    /\ S_(Window(HistoryNow, 30)) >= 18
    /\ HA_(Window(HistoryNow, 30)) >= 21

Scenario2Holds ==
    /\ S_(Window(HistoryNow, 20)) >= 12
    /\ HT_(Window(HistoryNow, 20)) <= 4
    /\ HNT_(Window(HistoryNow, 20)) >= 14
    /\ S_(Window(HistoryNow, 30)) >= 18
    /\ HT_(Window(HistoryNow, 30)) <= 6

\* the last step emitted a GHOST_TYPING_DETECTED
GhostEmitted == VideoProcessed /\ Ghosts(last.violations) # <<>>

\* C1: any two GHOST_TYPING_DETECTED violations of one session, whichever
\* scenario produced each, are at least 8 seconds apart.
C1_GhostsEightSecondsApart ==
    \A sid \in DOMAIN active_sessions :
        LET g == Ghosts(active_sessions[sid].violations)
        IN \A i, j \in DOMAIN g :
               i < j => g[j].timestamp - g[i].timestamp >= 8

\* a session that emitted GHOST_TYPING_DETECTED twice
C1_TwoGhosts ==
    \E sid \in DOMAIN active_sessions :
        Len(Ghosts(active_sessions[sid].violations)) >= 2

\* C2: whenever a camera frame produces a GHOST_TYPING_DETECTED, the counts
\* over the last 20 and the last 30 samples satisfy the thresholds of
\* scenario 1 or of scenario 2.
C2_EmissionOnlyOnThresholds ==
    GhostEmitted => Scenario1Holds \/ Scenario2Holds

\* an emission with exactly 14 of the last 20 samples showing no hands
C2_EmissionAtThreshold ==
    GhostEmitted /\ HA_(Window(HistoryNow, 20)) = 14

\* C3: at an evaluation with the cooldown elapsed, at least 30 samples and
\* the scenario-1 thresholds met, exactly one GHOST_TYPING_DETECTED is
\* emitted: CRITICAL, confidence 0.90, scenario hands_absent, its evidence
\* the S and HA counted over the last 20 samples.
C3_Scenario1Emits ==
    (/\ VideoProcessed
     /\ last.evaluated
     /\ CooldownElapsed
     /\ Len(HistoryNow) >= 30
     /\ Scenario1Holds)
    => LET g == Ghosts(last.violations)
       IN /\ Len(g) = 1
          /\ g[1].severity = "CRITICAL"
          /\ g[1].confidence = 90
          /\ g[1].scenario = "hands_absent"
          /\ g[1].evidence.screen_typing_frames = S_(Window(HistoryNow, 20))
          /\ g[1].evidence.hands_not_visible = HA_(Window(HistoryNow, 20))

\* a hands_absent emission with exactly 18 of the last 30 samples showing
\* screen typing
C3_EmissionAtConfirmationThreshold ==
    /\ GhostEmitted
    /\ Ghosts(last.violations)[1].scenario = "hands_absent"
    /\ S_(Window(HistoryNow, 30)) = 18

\* C4: at an evaluation with the cooldown elapsed, at least 30 samples and
\* the scenario-2 thresholds met, exactly one GHOST_TYPING_DETECTED is
\* emitted: HIGH, confidence 0.80, scenario hands_not_typing (the
\* scenario-1 primary test, tried first, never pre-empts it).
C4_Scenario2Emits ==
    (/\ VideoProcessed
     /\ last.evaluated
     /\ CooldownElapsed
     /\ Len(HistoryNow) >= 30
     /\ Scenario2Holds)
    => LET g == Ghosts(last.violations)
       IN /\ Len(g) = 1
          /\ g[1].severity = "HIGH"
          /\ g[1].confidence = 80
          /\ g[1].scenario = "hands_not_typing"

\* a second hands_not_typing emission, after the cooldown of the first
C4_SecondEmission ==
    /\ GhostEmitted
    /\ Ghosts(last.violations)[1].scenario = "hands_not_typing"
    /\ Ghosts(LogBefore) # <<>>

\* C5: while the history holds fewer than 15 samples the session has
\* emitted no GHOST_TYPING_DETECTED.
C5_NoEmissionUnderfilled ==
    \A sid \in DOMAIN active_sessions :
        Len(active_sessions[sid].detection_history) < 15
        => Ghosts(active_sessions[sid].violations) = <<>>

\* an evaluation over 1 to 14 samples that all show screen typing and no
\* hands
C5_EvaluatedUnderfilled ==
    /\ VideoProcessed
    /\ last.evaluated
    /\ Len(HistoryNow) \in 1..14
    /\ \A i \in DOMAIN HistoryNow :
           HistoryNow[i].screen_typing /\ ~HistoryNow[i].hands_visible

\* C6: screenTyping goes from false (previous screen frame) to true
\* (current screen frame) only if the current frame and the two frames
\* before it were all candidate-positive.
C6_ConfirmNeedsThreeInARow ==
    \A sid \in Sids :
        LET f == trace[sid].screen
            n == Len(f)
        IN (n >= 2 /\ ~f[n - 1].result /\ f[n].result)
           => (n = 3 /\ f[1].candidate /\ f[2].candidate /\ f[3].candidate)

\* C7: two consecutive evaluations of a session, and its creation and its
\* first evaluation, are at least 2 seconds apart, and every evaluation,
\* emitting or not, re-arms the timer.
C7_EvaluationEveryTwoSeconds ==
    /\ \A sid \in DOMAIN active_sessions :
           LET e == trace[sid].evals
           IN Len(e) = 2 => e[2] - e[1] >= 2
    /\ (VideoProcessed /\ last.evaluated)
       => active_sessions[last.sid].last_check_time = last.t

\* a second or later evaluation that emitted nothing
C7_EvaluatedWithoutEmission ==
    /\ VideoProcessed
    /\ last.evaluated
    /\ last.violations = <<>>
    /\ Len(trace[last.sid].evals) = 2
    /\ trace[last.sid].evals[1] > active_sessions[last.sid].start_time

\* C8: the history holds at most 40 samples, and they are the most recent
\* ones in arrival order: with a hand detector, the samples of the last
\* min(40, frames) camera frames.
C8_HistoryIsLastForty ==
    \A sid \in DOMAIN active_sessions :
        LET s == active_sessions[sid]
            h == s.detection_history
        IN /\ Len(h) <= 40
           /\ ~s.hand_detector.is_none =>
                 /\ Len(h) = (IF s.frame_count < 40 THEN s.frame_count ELSE 40)
                 /\ \A i \in DOMAIN h :
                        h[i].frame_number = s.frame_count - Len(h) + i - 1

\* a full history that has evicted its oldest sample
C8_Evicted ==
    \E sid \in DOMAIN active_sessions :
        LET h == active_sessions[sid].detection_history
        IN Len(h) = 40 /\ h[1].frame_number > 0

\* C9: the frame numbers of a history's samples are strictly increasing in
\* history order.
C9_FrameNumbersIncrease ==
    \A sid \in DOMAIN active_sessions :
        LET h == active_sessions[sid].detection_history
        IN \A i, j \in DOMAIN h :
               i < j => h[i].frame_number < h[j].frame_number

\* a full history right after a frame on which hand detection raised
C9_AfterError ==
    /\ VideoProcessed
    /\ last.hands # <<>>
    /\ last.hands[1].path = "error"
    /\ Len(HistoryNow) = 40
    /\ HistoryNow[1].frame_number > 0

\* C10: on the hands-detected and the no-hands path, the smoothed
\* handsTyping returned for a frame is true exactly when at least 8 of the
\* last 20 per-frame typing samples, the frame's own included, are true.
C10_SmoothedTypingIsEightOfTwenty ==
    (/\ VideoProcessed
     /\ last.hands # <<>>
     /\ last.hands[1].path \in {"hands", "no_hands"})
    => (last.hands[1].result.smoothed_typing
        <=> Trues(trace[last.sid].typing) >= 8)

\* a no-hands frame whose full window holds exactly 8 typing samples
C10_ExactlyEightNoHands ==
    /\ VideoProcessed
    /\ last.hands # <<>>
    /\ last.hands[1].path = "no_hands"
    /\ Len(trace[last.sid].typing) = 20
    /\ Trues(trace[last.sid].typing) = 8
    /\ last.hands[1].result.smoothed_typing

\* the entries of one kind in a sequence of violations
OfKind(log, kind) == SelectSeq(log, LAMBDA v : v.type = kind)

\* the faces in the picture the client sent last
FacesShown ==
    CASE env.cam = "no_face" -> 0
      [] env.cam = "two_faces" -> 2
      [] OTHER -> 1

\* C11: a camera frame processed with a working face detector yields a
\* NO_FACE_DETECTED (MEDIUM) iff it shows no face and a MULTIPLE_PERSONS
\* (CRITICAL) iff it shows more than one, never both, neither for one face.
C11_FaceViolationsByCount ==
    (/\ VideoProcessed
     /\ env.cam # "face_error"
     /\ ~active_sessions[last.sid].body_detector.is_none)
    => LET nf == OfKind(last.violations, "NO_FACE_DETECTED")
           mp == OfKind(last.violations, "MULTIPLE_PERSONS")
       IN /\ nf # <<>> <=> FacesShown = 0
          /\ mp # <<>> <=> FacesShown > 1
          /\ \A i \in DOMAIN nf : nf[i].severity = "MEDIUM"
          /\ \A i \in DOMAIN mp : mp[i].severity = "CRITICAL"
          /\ ~(nf # <<>> /\ mp # <<>>)
          /\ FacesShown = 1 => nf = <<>> /\ mp = <<>>

\* a frame showing two faces that produced MULTIPLE_PERSONS
C11_TwoFacesReported ==
    /\ VideoProcessed
    /\ env.cam = "two_faces"
    /\ OfKind(last.violations, "MULTIPLE_PERSONS") # <<>>

\* C12: two NO_FACE_DETECTED entries, and two MULTIPLE_PERSONS entries, of
\* one session's log are at least 5 seconds apart.
C12_FaceKindsFiveSecondsApart ==
    \A sid \in DOMAIN active_sessions :
        \A kind \in {"NO_FACE_DETECTED", "MULTIPLE_PERSONS"} :
            LET e == OfKind(active_sessions[sid].violations, kind)
            IN \A i, j \in DOMAIN e :
                   i < j => e[j].timestamp - e[i].timestamp >= 5

\* the step ended a session and sent its report
EndedNow == last.op = "end_proctoring" /\ last.path = "ended"

RECURSIVE SumOver(_, _)
\* the sum of a function's values over a set of its arguments
SumOver(f, keys) ==
    IF keys = {} THEN 0
    ELSE LET k == CHOOSE x \in keys : TRUE
         IN f[k] + SumOver(f, keys \ {k})

\* C13: the report's risk level is HIGH_RISK iff ghost >= 3 or multiple >= 2,
\* otherwise MEDIUM_RISK iff ghost >= 1 or noFace > 20, otherwise LOW_RISK,
\* over the numbers of entries of each kind in the session's log.
C13_RiskFromLogCounts ==
    [][EndedNow' =>
         LET log == active_sessions[last'.sid].violations
             ghost == Len(OfKind(log, "GHOST_TYPING_DETECTED"))
             multiple == Len(OfKind(log, "MULTIPLE_PERSONS"))
             noFace == Len(OfKind(log, "NO_FACE_DETECTED"))
         IN outbox'[1].report.riskLevel =
                IF ghost >= 3 \/ multiple >= 2 THEN "HIGH_RISK"
                ELSE IF ghost >= 1 \/ noFace > 20 THEN "MEDIUM_RISK"
                ELSE "LOW_RISK"]_vars

\* a report that is MEDIUM_RISK on its 21 no-face entries alone
C13_MediumOnNoFace ==
    /\ EndedNow
    /\ outbox[1].report.riskLevel = "MEDIUM_RISK"
    /\ outbox[1].report.violationBreakdown =
           [ghostTyping |-> 0, noFace |-> 21, multiplePersons |-> 1]

C15_StartRegistersFreshSession ==
    [][(last'.op = "start_proctoring" =>
          IF last'.path = "started"
          THEN /\ last'.sid \in DOMAIN active_sessions'
               /\ active_sessions'[last'.sid].frame_count = 0
               /\ active_sessions'[last'.sid].screen_frame_count = 0
               /\ active_sessions'[last'.sid].detection_history = <<>>
               /\ active_sessions'[last'.sid].violations = <<>>
               /\ now' - active_sessions'[last'.sid].last_ghost_typing_time >= 8
               /\ Len(outbox') = 1
               /\ outbox'[1].event = "proctoring_started"
               /\ outbox'[1].sessionId = last'.sid
          ELSE /\ Len(outbox') = 1
               /\ outbox'[1].event = "error"
               /\ active_sessions' = active_sessions)]_vars

\* a second connection starting while the first one's session has
\* processed a camera frame
C15_SecondSessionStarted ==
    /\ last.op = "start_proctoring"
    /\ last.path = "started"
    /\ last.sid = "sid2"
    /\ "sid1" \in DOMAIN active_sessions
    /\ active_sessions["sid1"].frame_count > 0

\* the last message was a camera or a screen frame
FrameNow == last.op \in {"video_frame", "screen_frame"}

\* C16: end_proctoring on a connection with a session sends exactly one
\* proctoring_ended whose report is computed from the session as it was,
\* and removes the session; a frame or an end_proctoring on a connection
\* without a session finds none, and end_proctoring then sends an error and
\* leaves the registry as it was.
C16_EndReportsAndRemoves ==
    [][/\ (last'.op = "end_proctoring"
           /\ last'.sid \in DOMAIN active_sessions)
          => /\ Len(outbox') = 1
             /\ outbox'[1].event = "proctoring_ended"
             /\ outbox'[1].report.framesProcessed =
                    active_sessions[last'.sid].frame_count
             /\ outbox'[1].report.screenFramesProcessed =
                    active_sessions[last'.sid].screen_frame_count
             /\ outbox'[1].report.totalViolations =
                    Len(active_sessions[last'.sid].violations)
             /\ outbox'[1].report.duration =
                    now - active_sessions[last'.sid].start_time
             /\ DOMAIN active_sessions' = DOMAIN active_sessions \ {last'.sid}
             /\ \A sid \in DOMAIN active_sessions' :
                    active_sessions'[sid] = active_sessions[sid]
       /\ (last'.op \in {"video_frame", "screen_frame", "end_proctoring"}
           /\ last'.sid \notin DOMAIN active_sessions)
          => /\ last'.path = "no_session"
             /\ active_sessions' = active_sessions
             /\ last'.op = "end_proctoring"
                => Len(outbox') = 1 /\ outbox'[1].event = "error"]_vars

\* a session ended after it had processed frames and logged a violation
C16_EndedAfterFrames ==
    /\ EndedNow
    /\ outbox[1].report.framesProcessed >= 1
    /\ outbox[1].report.totalViolations >= 1

\* C17: a session that terminated, by end_proctoring or by its channel
\* closing, has its final report written exactly once to the durable store.
C17_ReportPersistedOnce ==
    (EndedNow \/ (last.op = "disconnect" /\ last.path = "removed"))
    => Len(SelectSeq(db_writes, LAMBDA d : d.sessionId = last.sid)) = 1

\* C18: a camera or screen frame on a connection without a session changes
\* no session and not the registry, and nothing is sent.
C18_FrameWithoutSessionDropped ==
    [][(/\ last'.op \in {"video_frame", "screen_frame"}
        /\ last'.sid \notin DOMAIN active_sessions)
       => /\ active_sessions' = active_sessions
          /\ outbox' = <<>>]_vars

\* a frame dropped on one connection while the other has a session
C18_DroppedBesideSession ==
    /\ FrameNow
    /\ last.path = "no_session"
    /\ active_sessions # EmptyDict

\* C19: a frame whose payload fails to decode leaves the session (its frame
\* counters, history, screen-typing flag, timers and log) as it was and
\* nothing is sent; a later frame that decodes is processed.
C19_DecodeFailureDropped ==
    [][(/\ last'.op \in {"video_frame", "screen_frame"}
        /\ last'.sid \in DOMAIN active_sessions)
       => IF env'.payload \in {"malformed", "undecodable"}
          THEN /\ active_sessions' = active_sessions
               /\ outbox' = <<>>
          ELSE /\ last'.path = "processed"
               /\ last'.op = "video_frame" =>
                      active_sessions'[last'.sid].frame_count =
                          active_sessions[last'.sid].frame_count + 1
               /\ last'.op = "screen_frame" =>
                      active_sessions'[last'.sid].screen_frame_count =
                          active_sessions[last'.sid].screen_frame_count + 1]_vars

\* an undecodable camera frame dropped by a session that has processed a
\* frame and logged a violation
C19_DroppedUndecodable ==
    /\ last.op = "video_frame"
    /\ last.path = "frame_none"
    /\ active_sessions[last.sid].frame_count >= 1
    /\ active_sessions[last.sid].violations # <<>>

\* C20: a camera or screen frame with a malformed payload is answered with
\* an error message.
C20_MalformedAnsweredWithError ==
    (FrameNow /\ last.path = "exception")
    => \E i \in DOMAIN outbox : outbox[i].event = "error"

\* C21: in a session at whose start only the screen detector failed to
\* initialise, a processed camera frame showing no face is answered with
\* NO_FACE_DETECTED, one showing two with MULTIPLE_PERSONS, and each such
\* frame appends a sample to the history.
C21_CameraSurvivesScreenFailure ==
    (/\ VideoProcessed
     /\ env.raised[last.sid] = "ScreenActivityDetector")
    => /\ FacesShown = 0 => OfKind(last.violations, "NO_FACE_DETECTED") # <<>>
       /\ FacesShown > 1 => OfKind(last.violations, "MULTIPLE_PERSONS") # <<>>
       /\ active_sessions[last.sid].detection_history # <<>>

\* C22: a processed camera frame on which the face detector raised appends
\* no violation to the session log.
C22_DetectorErrorIsNoViolation ==
    (VideoProcessed /\ env.cam = "face_error")
    => /\ last.violations = <<>>
       /\ OfKind(active_sessions[last.sid].violations, "NO_FACE_DETECTED") = <<>>

\* the proctor_status messages among msgs
StatusIn(msgs) == SelectSeq(msgs, LAMBDA m : m.event = "proctor_status")

\* C23: a camera frame that brings the session's count of processed camera
\* frames to a positive multiple of 50 is followed by exactly one
\* proctor_status carrying the session's counters at that moment; no other
\* message handled is followed by a proctor_status.
C23_StatusEveryFiftyFrames ==
    [][IF /\ last'.op = "video_frame"
          /\ last'.sid \in DOMAIN active_sessions
          /\ active_sessions'[last'.sid].frame_count >
                 active_sessions[last'.sid].frame_count
          /\ active_sessions'[last'.sid].frame_count % 50 = 0
       THEN /\ Len(StatusIn(outbox')) = 1
            /\ StatusIn(outbox')[1].framesProcessed =
                   active_sessions'[last'.sid].frame_count
            /\ StatusIn(outbox')[1].screenFramesProcessed =
                   active_sessions'[last'.sid].screen_frame_count
            /\ StatusIn(outbox')[1].totalViolations =
                   Len(active_sessions'[last'.sid].violations)
            /\ StatusIn(outbox')[1].ghostTypingCount =
                   active_sessions'[last'.sid].typing_mismatch_count
       ELSE StatusIn(outbox') = <<>>]_vars

\* the status after the fiftieth camera frame, of a session that has
\* processed a screen frame and logged violations
C23_StatusAtFifty ==
    /\ last.op = "video_frame"
    /\ StatusIn(outbox) # <<>>
    /\ StatusIn(outbox)[1].framesProcessed = 50
    /\ StatusIn(outbox)[1].screenFramesProcessed = 1
    /\ StatusIn(outbox)[1].totalViolations >= 1

\* the last camera frame emitted a ghost-typing violation of scenario
\* hands_absent, CRITICAL, confidence 0.90
AbsentGhostNow ==
    /\ GhostEmitted
    /\ Ghosts(last.violations)[1].scenario = "hands_absent"
    /\ Ghosts(last.violations)[1].severity = "CRITICAL"
    /\ Ghosts(last.violations)[1].confidence = 90

\* every sample of the history has screen typing and no hands visible
AllTypingNoHands ==
    \A i \in DOMAIN HistoryNow :
        HistoryNow[i].screen_typing /\ ~HistoryNow[i].hands_visible

\* C24: while camera frames keep arriving and the clock keeps advancing and
\* every sample has screenTyping true and handsVisible false, a
\* GHOST_TYPING_DETECTED of scenario hands_absent, CRITICAL, confidence 0.90
\* is eventually emitted, and the session's first one is emitted at the
\* first evaluation at which the history holds 30 samples.
C24_GhostEventually ==
    /\ [](VideoProcessed => AllTypingNoHands)
    /\ [](/\ VideoProcessed
          /\ last.evaluated
          /\ Ghosts(LogBefore) = <<>>
          => (AbsentGhostNow <=> Len(HistoryNow) >= 30))
    /\ (Warmed("sid1") /\ active_sessions["sid1"].frame_count = 0)
           ~> AbsentGhostNow

\* the session's first ghost-typing violation, emitted by an evaluation
\* that came later than the thirtieth sample
C24_FirstGhostAfterThirty ==
    /\ AbsentGhostNow
    /\ Ghosts(LogBefore) = <<>>
    /\ AllTypingNoHands
    /\ Len(HistoryNow) > 30

\* the samples of h without hands visible
Hidden(h) == {i \in DOMAIN h : ~h[i].hands_visible}

\* every sample of h has screen typing, and hands visible and typing but
\* for one run of at most 15 consecutive samples without hands visible
SingleShortRun(h) ==
    /\ \A i \in DOMAIN h :
           h[i].screen_typing /\ (h[i].hands_visible => h[i].hands_typing)
    /\ LET hidden == Hidden(h)
       IN /\ Cardinality(hidden) <= 15
          /\ Cardinality({i \in hidden : i - 1 \notin hidden}) <= 1

\* C25: an evaluation over a history in which screen typing is continuous
\* and the hands are visible and typing but for a single run of at most 15
\* consecutive samples emits no GHOST_TYPING_DETECTED, wherever the
\* evaluation falls relative to the run.
C25_TransientOcclusionSilent ==
    (/\ VideoProcessed
     /\ last.evaluated
     /\ SingleShortRun(HistoryNow))
    => Ghosts(last.violations) = <<>>

\* an evaluation right after a run of 15 samples without hands, over a
\* history long enough for the confirmation: the primary test holds
C25_RejectedByConfirmation ==
    /\ VideoProcessed
    /\ last.evaluated
    /\ SingleShortRun(HistoryNow)
    /\ Len(HistoryNow) >= 30
    /\ HA_(Window(HistoryNow, 20)) >= 14
    /\ S_(Window(HistoryNow, 20)) >= 12
    /\ Cardinality(Hidden(HistoryNow)) = 15

\* both sessions have been sent the same messages
InStep ==
    /\ env.owed = <<>>
    /\ {"sid1", "sid2"} \subseteq DOMAIN active_sessions

EndedFor(student) ==
    SelectSeq(env.inbox,
              LAMBDA m : m.event = "proctoring_ended"
                         /\ m.report.studentId = student)

\* C27: whatever the interleaving of the start_proctoring, end_proctoring
\* and disconnect handlers of one connection, no handler fails on a missing
\* registry entry and at most one proctoring_ended is sent per session.
C27_LifecycleRaceFree ==
    /\ \A th \in Threads : running[th].pc # "failed"
    /\ \A th \in Threads : Len(EndedFor(ToString(th))) <= 1

\* C28: the recorder's queue never holds more frames than its bound, and
\* no frame the recorder grabbed is given up: when the queue is full the
\* oldest frame goes and the newest is admitted.
C28_NewestFrameAdmitted ==
    /\ Len(recorder.frames) <= 30
    /\ recorder.abandoned = {}

\* the session the evaluator classified last
Classified == evaluator.sessions[Len(evaluator.sessions)]

\* the session classified last has a critical violation
Critical ==
    \E i \in DOMAIN Classified.violations_detected :
        Classified.violations_detected[i] \in
            {"GHOST_TYPING_DETECTED", "MULTIPLE_PERSONS", "MULTIPLE_FACES"}

\* C29: a session labelled cheating or genuine, in any letter case, is
\* classified TP iff it has a critical violation and is labelled cheating,
\* TN iff it has none and is labelled genuine, FP iff it has one and is
\* labelled genuine, FN iff it has none and is labelled cheating; its other
\* violations do not matter.
C29_ClassificationTable ==
    evaluator.sessions # <<>>
    => /\ Classified.classification = "TP" <=> Critical /\ env.word = "cheating"
       /\ Classified.classification = "TN" <=> ~Critical /\ env.word = "genuine"
       /\ Classified.classification = "FP" <=> Critical /\ env.word = "genuine"
       /\ Classified.classification = "FN" <=> ~Critical /\ env.word = "cheating"

\* a false positive: a session labelled Genuine with several faces and a
\* violation that is not critical
C29_FalsePositiveMixed ==
    /\ evaluator.sessions # <<>>
    /\ Classified.classification = "FP"
    /\ env.label = <<"G", "e", "n", "u", "i", "n", "e">>
    /\ Classified.violations_detected = <<"NO_FACE_DETECTED", "MULTIPLE_FACES">>

\* the last handler processed a screen frame of sid that reached the
\* candidate test
ScreenJudged(sid) ==
    /\ last.op = "screen_frame"
    /\ last.sid = sid
    /\ sid \in DOMAIN active_sessions
    /\ last.screen # <<>>
    /\ last.screen[1].path = "full"

\* C30: a candidate-positive screen frame adds 1 to the screen detector's
\* counter, a candidate-negative one takes 1 from it unless it is 0; the
\* counter is never negative; the frame sets screenTyping only if it is
\* candidate-positive and leaves the counter at 3 or more.
C30_CounterUpDownSaturating ==
    [][\A sid \in Sids :
          (sid \in DOMAIN active_sessions /\ ScreenJudged(sid)')
          => LET before == active_sessions[sid].screen_detector.consecutive_activity
                 after == active_sessions'[sid].screen_detector.consecutive_activity
                 positive == last'.screen[1].candidate
             IN /\ before >= 0 /\ after >= 0
                /\ positive => after = before + 1
                /\ (~positive /\ before > 0) => after = before - 1
                /\ (~positive /\ before = 0) => after = 0
                /\ active_sessions'[sid].screen_typing_detected
                   => (positive /\ after >= 3)]_vars

\* a candidate-negative frame after a confirmation has taken the counter
\* from 3 to 2 and cleared screenTyping
C30_CountedDownFromThree ==
    /\ ScreenJudged("sid1")
    /\ ~last.screen[1].candidate
    /\ active_sessions["sid1"].screen_detector.consecutive_activity = 2
    /\ Len(trace["sid1"].screen) >= 2
    /\ trace["sid1"].screen[Len(trace["sid1"].screen) - 1].result

\* the hand detector's answer to the camera frame the last handler processed
HandsAnswered ==
    /\ VideoProcessed
    /\ last.hands # <<>>

\* C31: while fewer than 20 camera frames have reached a session's hand
\* detector, the smoothed handsTyping and the smoothed handsVisible it
\* returns are both false.
C31_UnderfilledWindowIsFalse ==
    (/\ HandsAnswered
     /\ active_sessions[last.sid].frame_count < 20
     /\ Len(active_sessions[last.sid].hand_detector.hands_visible_history) < 20)
    => /\ ~last.hands[1].result.smoothed_typing
       /\ ~last.hands[1].result.smoothed_visibility

\* C32: on the hands-detected and the no-hands path alike, the smoothed
\* handsVisible returned for a frame is true exactly when at least 8 of the
\* samples in the detector's 20-sample visibility window are hands-visible.
C32_SmoothedVisibilityIsEightOfTwenty ==
    (/\ HandsAnswered
     /\ last.hands[1].path \in {"hands", "no_hands"})
    => (last.hands[1].result.smoothed_visibility
        <=> SumSeq(active_sessions[last.sid].hand_detector.hands_visible_history)
            >= 8)

\* the sample the last handler appended to its session's history
SampleWritten == HistoryNow[Len(HistoryNow)]

\* C33: the screenTyping written into a sample is true exactly when at least
\* 8 of the screen detector's last 20 answers were true.
C33_SampleScreenTypingIsSmoothed ==
    (HandsAnswered /\ HistoryNow # <<>>)
    => (SampleWritten.screen_typing
        <=> Trues(trace[last.sid].outputs) >= 8)

\* C34: a screen frame changes nothing of its session but the screen
\* detector, the latched screen-typing flag and the screen-frame counter,
\* runs no evaluation and emits nothing; the sample a camera frame appends
\* carries the flag as the session held it when the camera frame arrived.
C34_ScreenFrameTouchesScreenOnly ==
    [][\A sid \in Sids :
          (sid \in DOMAIN active_sessions /\ last'.sid = sid)
          => LET s == active_sessions[sid]
                 s2 == active_sessions'[sid]
             IN /\ last'.op = "screen_frame"
                   => /\ sid \in DOMAIN active_sessions'
                      /\ s = [s2 EXCEPT
                                 !.screen_detector = s.screen_detector,
                                 !.screen_typing_detected =
                                     s.screen_typing_detected,
                                 !.screen_frame_count = s.screen_frame_count]
                      /\ s2.screen_frame_count \in
                             {s.screen_frame_count, s.screen_frame_count + 1}
                      /\ outbox' = <<>>
                      /\ ~last'.evaluated
                      /\ last'.violations = <<>>
                /\ (last'.op = "video_frame" /\ last'.path = "processed"
                    /\ last'.hands # <<>>)
                   => s2.detection_history[Len(s2.detection_history)]
                          .screen_typing = s.screen_typing_detected]_vars

\* a screen frame has latched the flag in a session that holds samples and
\* a logged violation
C34_LatchedBesideLog ==
    /\ last.op = "screen_frame"
    /\ last.path = "processed"
    /\ last.sid \in DOMAIN active_sessions
    /\ active_sessions[last.sid].screen_typing_detected
    /\ active_sessions[last.sid].violations # <<>>
    /\ active_sessions[last.sid].detection_history # <<>>
    /\ active_sessions[last.sid].frame_count > 0

\* C35: a screen frame whose low ratio is above 0.12 or below 0.002, or
\* whose medium ratio is above 0.08, leaves screenTyping false whatever the
\* counter, the rhythm and the localisation are; the first frame a new or
\* reset detector sees leaves screenTyping false and the counter as it was.
C35_ExcludedFrameIsNotTyping ==
    [][\A sid \in Sids :
          (/\ sid \in DOMAIN active_sessions
           /\ sid \in DOMAIN active_sessions'
           /\ last'.op = "screen_frame"
           /\ last'.sid = sid
           /\ last'.path = "processed"
           /\ env'.scr # "reset")
          => LET f == ScreenFrame(env'.scr)
                 sd == active_sessions[sid].screen_detector
                 sd2 == active_sessions'[sid].screen_detector
             IN /\ (f.low > 1200 \/ f.med > 800 \/ f.low < 20)
                   => ~active_sessions'[sid].screen_typing_detected
                /\ ~sd.has_prev
                   => /\ ~active_sessions'[sid].screen_typing_detected
                      /\ sd2.consecutive_activity = sd.consecutive_activity
                      /\ sd2.consecutive_activity = 0]_vars

\* a pasted block, excluded as too large only, has ended a confirmed run of
\* typing: the counter was at 3 or more and the rhythm still holds
C35_PasteAfterConfirmedTyping ==
    /\ last.op = "screen_frame"
    /\ last.path = "processed"
    /\ last.sid = "sid1"
    /\ "sid1" \in DOMAIN active_sessions
    /\ env.scr = "paste"
    /\ ~active_sessions["sid1"].screen_typing_detected
    /\ active_sessions["sid1"].screen_detector.consecutive_activity >= 2
    /\ Len(trace["sid1"].screen) >= 2
    /\ trace["sid1"].screen[Len(trace["sid1"].screen) - 1].result
    /\ has_typing_rhythm(active_sessions["sid1"].screen_detector.change_history,
                         last.t)

\* C36: over the last n samples of a session's history, for every n up to
\* 20, the analysis counts 14 or more samples without hands or 14 or more
\* with hands that do not type, never both; so the two primary tests never
\* hold of the same window.
C36_PrimaryTestsExclusive ==
    \A sid \in DOMAIN active_sessions :
        \A n \in 0..20 :
            LET recent == LastN(active_sessions[sid].detection_history, n)
            IN /\ ~(/\ hands_not_visible_frames(recent) >= 14
                    /\ hands_visible_not_typing(recent) >= 14)
               /\ ~(primary_hands_absent(recent)
                    /\ primary_hands_not_typing(recent))

\* the scenario-1 primary test holds of a window that also has samples with
\* hands that do not type
C36_AbsentBesideIdle ==
    /\ VideoProcessed
    /\ last.evaluated
    /\ primary_hands_absent(Window(HistoryNow, 20))
    /\ HNT_(Window(HistoryNow, 20)) >= 1
    /\ HA_(Window(HistoryNow, 20)) >= 14

\* C37: a session's typing_mismatch_count equals the number of
\* GHOST_TYPING_DETECTED entries in its violation log and the number of its
\* recorded incidents, and a proctor_status reports that number as
\* ghostTypingCount.
C37_GhostCountMatchesLog ==
    /\ \A sid \in DOMAIN active_sessions :
           LET s == active_sessions[sid]
           IN /\ s.typing_mismatch_count = Len(Ghosts(s.violations))
              /\ s.typing_mismatch_count = Len(s.ghost_typing_incidents)
    /\ VideoProcessed
       => \A i \in DOMAIN outbox :
              outbox[i].event = "proctor_status"
              => outbox[i].ghostTypingCount
                 = Len(Ghosts(active_sessions[last.sid].violations))

\* a proctor_status that reports a ghost-typing count above zero
C37_StatusReportsGhosts ==
    /\ VideoProcessed
    /\ \E i \in DOMAIN outbox :
           /\ outbox[i].event = "proctor_status"
           /\ outbox[i].ghostTypingCount >= 1

\* C38: every sample in a session's history that says the hands type says
\* the hands are visible, and a hands_absent GHOST_TYPING_DETECTED is
\* emitted only when at most 6 of the last 20 samples say the hands type.
C38_TypingHandsAreVisible ==
    /\ \A sid \in DOMAIN active_sessions :
           \A i \in DOMAIN active_sessions[sid].detection_history :
               active_sessions[sid].detection_history[i].hands_typing
               => active_sessions[sid].detection_history[i].hands_visible
    /\ (GhostEmitted /\ Ghosts(last.violations)[1].scenario = "hands_absent")
       => HT_(Window(HistoryNow, 20)) <= 6

\* C39: a start_proctoring on a connection that has a session puts a new
\* session in its place, with an empty log and history, zero counters and
\* no cooldown in force; it sends proctoring_started alone, writes no report,
\* and leaves the registry with the same connections and the other sessions
\* as they were.
C39_RestartReplacesSession ==
    [][\A sid \in Sids :
          (/\ sid \in DOMAIN active_sessions
           /\ last'.op = "start_proctoring"
           /\ last'.path = "started"
           /\ last'.sid = sid)
          => /\ DOMAIN active_sessions' = DOMAIN active_sessions
             /\ \A other \in DOMAIN active_sessions \ {sid} :
                    active_sessions'[other] = active_sessions[other]
             /\ LET s2 == active_sessions'[sid]
                IN /\ s2.violations = <<>>
                   /\ s2.detection_history = <<>>
                   /\ s2.ghost_typing_incidents = <<>>
                   /\ s2.frame_count = 0
                   /\ s2.screen_frame_count = 0
                   /\ s2.typing_mismatch_count = 0
                   /\ ~s2.screen_typing_detected
                   /\ ~s2.screen_detector.has_prev
                   /\ s2.hand_detector.typing_history = <<>>
                   /\ s2.start_time = now
                   /\ now - s2.last_ghost_typing_time >= 8
             /\ Len(outbox') = 1
             /\ outbox'[1].event = "proctoring_started"
             /\ db_writes' = db_writes]_vars

\* the second start on the first connection, whose first session had
\* logged a frame with two faces a second after it began
C39_StartedOverLoggedSession ==
    /\ last.op = "start_proctoring"
    /\ last.path = "started"
    /\ last.sid = "sid1"
    /\ env.msgs = 2
    /\ env.cam = "two_faces"
    /\ "sid2" \notin DOMAIN active_sessions
    /\ active_sessions["sid1"].violations = <<>>
    /\ now > Epoch

\* the sessions the evaluator holds whose stored classification is c
Stored(c) ==
    Cardinality({i \in DOMAIN evaluator.sessions :
                    evaluator.sessions[i].classification = c})

\* C40: calculate_metrics over the sessions added returns a confusion matrix
\* whose TP, TN, FP and FN are the numbers of sessions stored with that
\* classification, whatever their labels.
C40_MatrixCountsStoredClasses ==
    [][(/\ last'.op = "calculate_metrics"
        /\ evaluator' = evaluator
        /\ evaluator.sessions # <<>>)
       => /\ last'.path = "returned"
          /\ \A c \in {"TP", "TN", "FP", "FN"} :
                 last'.metrics[1].confusion_matrix[c] = Stored(c)]_vars

====
